---- MODULE Spec2Model ----
(***************************************************************************)
(* Tether server: the Session Store (ConversationRepository over SQLite)   *)
(* and the Conversation Orchestrator (RAGService.generate_response and its *)
(* retrieve-or-respond graph).                                             *)
(*                                                                         *)
(* Every repository method opens its own connection and runs as one        *)
(* transaction, so each is one atomic action.  A turn (generate_response)  *)
(* is a sequence of such transactions, in-memory assignments and model     *)
(* calls; it is modelled as a process with a program counter so that       *)
(* request threads interleave between those steps.                         *)
(***************************************************************************)
EXTENDS Integers, Sequences, FiniteSets, TLC

VARIABLES
    sessions,       \* table sessions: id -> [name, is_active, updated_at]
    messages,       \* table messages, rows in rowid order
    checklists,     \* table checklists, rows in rowid order
    nextMsgId,      \* next rowid of messages
    nextItemId,     \* next rowid of checklists
    now,            \* CURRENT_TIMESTAMP (one-second resolution)
    appended,       \* history: per session, the messages inserted and not yet purged, with the role the caller passed
    cur,            \* RAGService._current_mode/_current_detective_mode/_current_activity_context
    turn,           \* per request thread: the locals of generate_response
    started,        \* number of turns started so far
    serial,         \* history: per session, the turns run one after another since it was created fresh
    lastCall,       \* history: the latest call of a repository method, its arguments and the tables before it
    tx,             \* the connection that holds SQLite's write lock: its method, its position and its uncommitted tables
    stats,          \* the locals of a get_stats call in progress
    input,          \* the argument of a pure function under examination
    output          \* what the function returned for it, once called

vars == <<sessions, messages, checklists, nextMsgId, nextItemId, now,
          appended, cur, turn, started, serial, lastCall, tx, stats, input, output>>

probeVars == <<tx, stats, input, output>>

storeVars == <<sessions, messages, checklists, nextMsgId, nextItemId, appended>>

----------------------------------------------------------------------------
(* Bounds of the model *)

MaxMsgs == 3
MaxClock == 1
MaxItems == 2
MaxTasks == 2
MaxTurns == 2
MaxCalls == 4
MaxTitleBody == 52
MaxEvents == 4
MaxInvocations == 2
MaxSwitches == 22
MaxStateMsgs == 4

(* Program constants *)

DefaultHistoryLimit == 100
DefaultListLimit == 100
MaxNameLength == 50
KeptNameLength == 47
RetrieveK == 2

----------------------------------------------------------------------------
(* Input domains *)

SessionIds == {"s1", "s2"}
NoName == "NULL"
PlaceholderName == "New Chat"
SessionNames == {NoName, "Work"}
NoMetadata == "NULL"
SessionMetadata == {NoMetadata, "m1"}
Contents == {"c1"}
StoreModes == {"general"}
InputRoles == {"user", "assistant", "bogus"}
TaskTexts == {"t1"}
CallRoles == {"user", "human", "assistant", "ai", "tool", "bogus"}
SessionProfiles ==
    { [name |-> NoName, metadata |-> NoMetadata],
      [name |-> "Work", metadata |-> "m1"] }
MessageIds == {1, 2}

RECURSIVE SeqsUpTo(_, _)
SeqsUpTo(S, n) ==
    IF n = 0 THEN {<<>>}
    ELSE LET shorter == SeqsUpTo(S, n - 1)
         IN  shorter \cup {Append(q, x) : q \in shorter, x \in S}

TaskLists == SeqsUpTo(TaskTexts, MaxTasks) \ {<<>>}

----------------------------------------------------------------------------
(* Session Store: pure helpers *)

valid_types == {"human", "ai", "system", "tool", "user", "assistant"}

(* a store that keeps the caller's alias instead of normalizing it *)
KeepType(message_type) == message_type

(* a normalization that forgets the alias "assistant" *)
NormalizeUserOnly(message_type) ==
    IF message_type = "user" THEN "human" ELSE message_type

NormalizeType(message_type) ==
    IF message_type = "user" THEN "human"
    ELSE IF message_type = "assistant" THEN "ai"
    ELSE message_type

RowsOfSession(rows, session_id) ==
    SelectSeq(rows, LAMBDA r : r.session_id = session_id)

(* the place of rows[i] in ORDER BY created_at ASC: after every row of an
   earlier created_at, and after the rows of the same created_at that come
   before it in scan (rowid) order *)
PositionAsc(rows, i) ==
    1 + Cardinality({j \in 1..Len(rows) :
            \/ rows[j].created_at < rows[i].created_at
            \/ (rows[j].created_at = rows[i].created_at /\ j < i)})

(* the place of rows[i] in ORDER BY created_at DESC *)
PositionDesc(rows, i) ==
    1 + Cardinality({j \in 1..Len(rows) :
            \/ rows[j].created_at > rows[i].created_at
            \/ (rows[j].created_at = rows[i].created_at /\ j < i)})

(* ORDER BY created_at DESC in place of ASC *)
OrderByCreatedAtDesc(rows) ==
    [k \in 1..Len(rows) |-> rows[CHOOSE i \in 1..Len(rows) : PositionDesc(rows, i) = k]]

(* ORDER BY created_at ASC: rows with equal created_at keep scan (rowid) order *)
OrderByCreatedAtAsc(rows) ==
    [k \in 1..Len(rows) |-> rows[CHOOSE i \in 1..Len(rows) : PositionAsc(rows, i) = k]]

(* a limit that keeps the last rows of the ordering instead of the first *)
SqlLimitNewest(rows, limit) ==
    SubSeq(rows, IF Len(rows) < limit THEN 1 ELSE Len(rows) - limit + 1, Len(rows))

SqlLimit(rows, limit) ==
    SubSeq(rows, 1, IF Len(rows) < limit THEN Len(rows) ELSE limit)

HistoryEntry(row) ==
    [id |-> row.id, type |-> row.message_type, content |-> row.content,
     mode |-> row.mode,
     metadata |-> IF row.metadata = NoMetadata THEN "{}" ELSE row.metadata,
     timestamp |-> row.created_at]

(* one SELECT: the session's rows are read once, ordered once and cut once,
   and every kept row is converted *)
get_message_history(session_id, limit) ==
    CHOOSE history \in
        { [i \in 1..Len(rows) |-> HistoryEntry(rows[i])] :
            rows \in { SqlLimit(ordered, limit) :
                ordered \in { OrderByCreatedAtAsc(stored) :
                    stored \in {RowsOfSession(messages, session_id)} } } } : TRUE

(* a lookup without AND is_active = 1 *)
get_session_of_any_state(session_id) ==
    IF session_id \in DOMAIN sessions THEN <<sessions[session_id]>> ELSE <<>>

get_session(session_id) ==
    IF session_id \in DOMAIN sessions /\ sessions[session_id].is_active
    THEN <<sessions[session_id]>>
    ELSE <<>>

SessionEntry(session_id) ==
    [id |-> session_id, name |-> sessions[session_id].name,
     metadata |-> sessions[session_id].metadata,
     updated_at |-> sessions[session_id].updated_at,
     is_active |-> sessions[session_id].is_active]

(* SELECT * FROM sessions [WHERE is_active = 1]: the ids of the rows selected *)
ListedIds(active_only) ==
    {x \in DOMAIN sessions : (~active_only) \/ sessions[x].is_active}

(* ORDER BY updated_at DESC: SQL leaves the order of rows of equal
   updated_at open, so every order of them is a possible result *)
OrderingsByUpdatedAtDesc(ids) ==
    {q \in [1..Cardinality(ids) -> ids] :
        /\ \A i, j \in 1..Cardinality(ids) : i # j => q[i] # q[j]
        /\ \A i, j \in 1..Cardinality(ids) :
              i < j => sessions[q[i]].updated_at >= sessions[q[j]].updated_at}

(* the results list_sessions(active_only, limit) may return *)
list_sessions(active_only, limit) ==
    {[i \in 1..Len(SqlLimit(q, limit)) |-> SessionEntry(q[i])] :
        q \in OrderingsByUpdatedAtDesc(ListedIds(active_only))}

ItemsOfPair(rows, session_id, message_id) ==
    SelectSeq(rows, LAMBDA r : r.session_id = session_id /\ r.message_id = message_id)

(* the place of rows[i] in ORDER BY position ASC *)
PositionByPosition(rows, i) ==
    1 + Cardinality({j \in 1..Len(rows) :
            \/ rows[j].position < rows[i].position
            \/ (rows[j].position = rows[i].position /\ j < i)})

ChecklistEntry(row) ==
    [id |-> row.id, taskText |-> row.task_text, isCompleted |-> row.is_completed,
     position |-> row.position, createdAt |-> row.created_at,
     updatedAt |-> row.updated_at]

get_checklist(session_id, message_id) ==
    LET rows == ItemsOfPair(checklists, session_id, message_id)
    IN  [k \in 1..Len(rows) |->
            ChecklistEntry(rows[CHOOSE i \in 1..Len(rows) : PositionByPosition(rows, i) = k])]

(* a validation that lets every role through *)
add_message_simple_never_raises(message_type) == FALSE

(* add_message_simple raises ValueError before it opens a connection *)
add_message_simple_raises(message_type) == message_type \notin valid_types

----------------------------------------------------------------------------
(* Session Store: the effect of each method on the tables *)

(* schema.sql declares sessions.id the primary key of the table: the row an
   INSERT OR REPLACE conflicts with, and removes, is the row of the same id. *)
ConflictingIds(session_id) == DOMAIN sessions \cap {session_id}

(* INSERT OR IGNORE: the row of an id that exists is kept *)
SessionsAfterCreateIgnoring(session_id, name, metadata) ==
    IF session_id \in DOMAIN sessions THEN sessions
    ELSE [x \in DOMAIN sessions \cup {session_id} |->
            IF x = session_id
            THEN [name |-> name, metadata |-> metadata, is_active |-> TRUE,
                  updated_at |-> now]
            ELSE sessions[x]]

SessionsAfterCreate(session_id, name, metadata) ==
    [x \in (DOMAIN sessions \ ConflictingIds(session_id)) \cup {session_id} |->
        IF x = session_id
        THEN [name |-> name, metadata |-> metadata, is_active |-> TRUE,
              updated_at |-> now]
        ELSE sessions[x]]

(* an insert of a message that leaves updated_at of the session alone *)
SessionsWithoutTouch(session_id) == sessions

SessionsAfterTouch(session_id) ==
    [x \in DOMAIN sessions |->
        IF x = session_id THEN [sessions[x] EXCEPT !.updated_at = now]
        ELSE sessions[x]]

SessionsAfterRename(session_id, name) ==
    [x \in DOMAIN sessions |->
        IF x = session_id
        THEN [sessions[x] EXCEPT !.name = name, !.updated_at = now]
        ELSE sessions[x]]

(* a clear that flips the active flag instead of resetting it *)
SessionsAfterClearToggling(session_id) ==
    [x \in DOMAIN sessions |->
        IF x = session_id
        THEN [sessions[x] EXCEPT !.is_active = ~@, !.updated_at = now]
        ELSE sessions[x]]

SessionsAfterClear(session_id) ==
    [x \in DOMAIN sessions |->
        IF x = session_id
        THEN [sessions[x] EXCEPT !.is_active = FALSE, !.updated_at = now]
        ELSE sessions[x]]

SessionsAfterDelete(session_id) ==
    [x \in DOMAIN sessions \ {session_id} |-> sessions[x]]

(* The INSERT names no created_at: the column takes the default that
   schema.sql declares for it, the CURRENT_TIMESTAMP of the insertion. *)
CreatedAtDefault == now

NewMessageRow(session_id, message_type, content, mode) ==
    [id |-> nextMsgId, session_id |-> session_id,
     message_type |-> NormalizeType(message_type),
     content |-> content, metadata |-> NoMetadata, mode |-> mode,
     created_at |-> CreatedAtDefault]

(* Foreign keys are enabled on init_database's connection only; the
   repository's own connections run with SQLite's default (not enforced),
   so an INSERT is accepted whatever session_id it carries. *)
MessagesAfterInsert(session_id, message_type, content, mode) ==
    Append(messages, NewMessageRow(session_id, message_type, content, mode))

(* a clear that purges the messages of every session *)
MessagesAfterClearingAll(session_id) == <<>>

MessagesAfterClear(session_id) ==
    SelectSeq(messages, LAMBDA r : r.session_id # session_id)

(* DELETE FROM sessions only: with foreign keys not enforced on this
   connection nothing cascades to messages or checklists. *)
MessagesAfterDeleteSession(session_id) == messages

ChecklistsAfterDeleteSession(session_id) == checklists

NewChecklistRows(session_id, message_id, tasks) ==
    [i \in 1..Len(tasks) |->
        [id |-> nextItemId + i - 1, session_id |-> session_id,
         message_id |-> message_id, task_text |-> tasks[i],
         is_completed |-> FALSE, position |-> i - 1,
         created_at |-> CreatedAtDefault, updated_at |-> CreatedAtDefault]]

ItemMatched(session_id, message_id, item_id) ==
    \E i \in 1..Len(checklists) :
        /\ checklists[i].id = item_id
        /\ checklists[i].session_id = session_id
        /\ checklists[i].message_id = message_id

(* an UPDATE that selects the item by its id alone *)
ChecklistsAfterItemUpdateById(session_id, message_id, item_id, is_completed) ==
    [i \in 1..Len(checklists) |->
        IF checklists[i].id = item_id
        THEN [checklists[i] EXCEPT !.is_completed = is_completed, !.updated_at = now]
        ELSE checklists[i]]

(* UPDATE checklists SET is_completed = ?, updated_at = CURRENT_TIMESTAMP
   WHERE id = ? AND session_id = ? AND message_id = ? *)
ChecklistsAfterItemUpdate(session_id, message_id, item_id, is_completed) ==
    [i \in 1..Len(checklists) |->
        IF /\ checklists[i].id = item_id
           /\ checklists[i].session_id = session_id
           /\ checklists[i].message_id = message_id
        THEN [checklists[i] EXCEPT !.is_completed = is_completed, !.updated_at = now]
        ELSE checklists[i]]

(* a save that adds to the items of the pair instead of replacing them *)
ChecklistsAfterSaveMerging(session_id, message_id, tasks) ==
    checklists \o NewChecklistRows(session_id, message_id, tasks)

ChecklistsAfterSave(session_id, message_id, tasks) ==
    SelectSeq(checklists,
              LAMBDA r : ~(r.session_id = session_id /\ r.message_id = message_id))
    \o NewChecklistRows(session_id, message_id, tasks)

----------------------------------------------------------------------------
(* Session Store: one action per method (each is one transaction) *)

create_session(session_id, name, metadata) ==
    /\ sessions' = SessionsAfterCreate(session_id, name, metadata)
    /\ UNCHANGED <<messages, checklists, nextMsgId, nextItemId, appended>>

add_message_simple(session_id, message_type, content, mode) ==
    IF add_message_simple_raises(message_type)
    THEN UNCHANGED storeVars
    ELSE /\ sessions' = SessionsAfterTouch(session_id)
         /\ messages' = MessagesAfterInsert(session_id, message_type, content, mode)
         /\ nextMsgId' = nextMsgId + 1
         /\ appended' = [appended EXCEPT ![session_id] =
                Append(@, [id |-> nextMsgId, role |-> message_type,
                           type |-> NormalizeType(message_type),
                           content |-> content, mode |-> mode])]
         /\ UNCHANGED <<checklists, nextItemId>>

clear_session(session_id) ==
    /\ sessions' = SessionsAfterClear(session_id)
    /\ messages' = MessagesAfterClear(session_id)
    /\ appended' = [appended EXCEPT ![session_id] = <<>>]
    /\ UNCHANGED <<checklists, nextMsgId, nextItemId>>

update_session_name(session_id, name) ==
    /\ sessions' = SessionsAfterRename(session_id, name)
    /\ UNCHANGED <<messages, checklists, nextMsgId, nextItemId, appended>>

delete_session(session_id) ==
    /\ sessions' = SessionsAfterDelete(session_id)
    /\ messages' = MessagesAfterDeleteSession(session_id)
    /\ checklists' = ChecklistsAfterDeleteSession(session_id)
    /\ appended' = [appended EXCEPT ![session_id] =
            SelectSeq(@, LAMBDA g : \E i \in 1..Len(messages') : messages'[i].id = g.id)]
    /\ UNCHANGED <<nextMsgId, nextItemId>>

save_checklist(session_id, message_id, tasks) ==
    /\ checklists' = ChecklistsAfterSave(session_id, message_id, tasks)
    /\ nextItemId' = nextItemId + Len(tasks)
    /\ UNCHANGED <<sessions, messages, nextMsgId, appended>>

update_checklist_item(session_id, message_id, item_id, is_completed) ==
    /\ checklists' = ChecklistsAfterItemUpdate(session_id, message_id, item_id, is_completed)
    /\ UNCHANGED <<sessions, messages, nextMsgId, nextItemId, appended>>

(* What the other connections read of a table while a connection holds
   statements it has not committed: the table as last committed. *)
ReadersViewUncommitted(committed, uncommitted) == uncommitted

ReadersView(committed, uncommitted) == committed

(* a failed save that keeps what its statements did so far *)
ChecklistsKeptOnFailure(committed, uncommitted) == uncommitted

(* leaving the with block by an exception rolls the transaction back *)
ChecklistsAfterRollback(committed, uncommitted) == committed

----------------------------------------------------------------------------
(* Activity Analyzer.  An event is [timestamp, type, application_name,
   window_title, idle_duration, was_idle], the timestamp in milliseconds; the
   result is the list of lines of the digest, <<>> being the empty string,
   each line a record of the values formatted into it.  Days are calendar day
   numbers, datetime.fromtimestamp being taken in a zone without offset. *)

Today == 2
MsPerDay == 86400000
MsPerMinute == 60000
MinIdleSeconds == 60
ExtendedIdleSeconds == 300
FocusMs == 600000
SegmentCapMs == 3600000

DayOf(timestamp) == timestamp \div MsPerDay

(* dt.strftime('%H:%M'), as minutes since midnight *)
TimeOfDay(timestamp) == (timestamp % MsPerDay) \div MsPerMinute

(* f"{num/den:.1f}", as a number of tenths: the nearest one, the even one of
   two equally near *)
RoundedTenths(num, den) ==
    LET q == (10 * num) \div den
        r == (10 * num) % den
    IN  IF 2 * r < den THEN q
        ELSE IF 2 * r > den THEN q + 1
        ELSE IF q % 2 = 0 THEN q ELSE q + 1

(* the analyzer reading the shared context field instead of its argument *)
WindowChangesOfCurrent(activity_logs) ==
    SelectSeq(cur.activity_context, LAMBDA e : e.timestamp # 0 /\ e.type = "window_change")

WindowChanges(activity_logs) ==
    SelectSeq(activity_logs, LAMBDA e : e.timestamp # 0 /\ e.type = "window_change")

(* lines 324-333 *)
IdlePeriods(activity_logs) ==
    SelectSeq(activity_logs, LAMBDA e :
        /\ e.timestamp # 0
        /\ e.type = "idle"
        /\ e.was_idle
        /\ e.idle_duration > MinIdleSeconds)

CountOf(app, changes) ==
    Cardinality({i \in 1..Len(changes) : changes[i].application_name = app})

FirstIndexOf(app, changes) ==
    CHOOSE i \in 1..Len(changes) :
        /\ changes[i].application_name = app
        /\ \A j \in 1..(i - 1) : changes[j].application_name # app

(* sorted(app_counts.items(), key=count, reverse=True): a stable sort of the
   apps in first-appearance order, highest count first *)
MostUsed(apps, changes) ==
    CHOOSE a \in apps : \A b \in apps \ {a} :
        \/ CountOf(a, changes) > CountOf(b, changes)
        \/ /\ CountOf(a, changes) = CountOf(b, changes)
           /\ FirstIndexOf(a, changes) < FirstIndexOf(b, changes)

RECURSIVE TopApps(_, _, _)
TopApps(apps, changes, n) ==
    IF n = 0 \/ apps = {} THEN <<>>
    ELSE LET a == MostUsed(apps, changes)
         IN  <<[app |-> a, count |-> CountOf(a, changes)]>>
             \o TopApps(apps \ {a}, changes, n - 1)

AppsOf(changes) == {changes[i].application_name : i \in 1..Len(changes)}

(* every day labelled by its date *)
DayLabelByDate(day) == "date"

DayLabel(day) ==
    IF day = Today THEN "Today"
    ELSE IF day = Today - 1 THEN "Yesterday"
    ELSE "date"

(* the slice s[:n] *)
FirstN(s, n) == SubSeq(s, 1, IF Len(s) < n THEN Len(s) ELSE n)

(* titles that are empty or contain 'No Window' *)
DullTitles == {"", "No Window"}

(* lines 370-373 *)
KeyActivities(onDay) ==
    LET interesting_windows ==
            FirstN(SelectSeq(onDay, LAMBDA e : e.window_title \notin DullTitles), 5)
        shown == FirstN(interesting_windows, 3)
    IN  IF interesting_windows = <<>> THEN <<>>
        ELSE << [line |-> "key_activities",
                 windows |-> [i \in 1..Len(shown) |->
                                 [time |-> TimeOfDay(shown[i].timestamp),
                                  window |-> shown[i].window_title]]] >>

DayLines(day, changes) ==
    LET onDay == SelectSeq(changes, LAMBDA e : DayOf(e.timestamp) = day)
    IN  IF onDay = <<>> THEN <<>>
        ELSE << [line |-> "used", label |-> DayLabel(day), day |-> day,
                 apps |-> TopApps(AppsOf(onDay), onDay, 3)],
                [line |-> "active", from |-> TimeOfDay(onDay[1].timestamp),
                 to |-> TimeOfDay(onDay[Len(onDay)].timestamp)] >>
             \o KeyActivities(onDay)

RECURSIVE DaySummaries(_, _)
DaySummaries(days, changes) ==
    IF days = {} THEN <<>>
    ELSE LET d == CHOOSE x \in days : \A y \in days : y <= x
         IN  DayLines(d, changes) \o DaySummaries(days \ {d}, changes)

(* the place of changes[i] in sorted(app_switches, key=time), a stable sort *)
PositionByTime(changes, i) ==
    1 + Cardinality({j \in 1..Len(changes) :
            \/ changes[j].timestamp < changes[i].timestamp
            \/ (changes[j].timestamp = changes[i].timestamp /\ j < i)})

SortedByTime(changes) ==
    [k \in 1..Len(changes) |->
        changes[CHOOSE i \in 1..Len(changes) : PositionByTime(changes, i) = k]]

(* lines 408-415: the time from switch k to switch k + 1 goes to the app of
   switch k when it is positive and under the cap *)
SegmentMs(sorted, k) == sorted[k + 1].timestamp - sorted[k].timestamp

Counted(sorted, k) == SegmentMs(sorted, k) > 0 /\ SegmentMs(sorted, k) < SegmentCapMs

RECURSIVE AppDuration(_, _, _)
AppDuration(sorted, app, k) ==
    IF k = 0 THEN 0
    ELSE (IF sorted[k].application_name = app /\ Counted(sorted, k)
          THEN SegmentMs(sorted, k) ELSE 0)
         + AppDuration(sorted, app, k - 1)

(* app_durations: app -> the sum of its counted segments, for the apps that
   have one *)
TimedApps(sorted) ==
    {sorted[k].application_name : k \in {j \in 1..(Len(sorted) - 1) : Counted(sorted, j)}}

FirstCounted(sorted, app) ==
    CHOOSE k \in 1..(Len(sorted) - 1) :
        /\ sorted[k].application_name = app /\ Counted(sorted, k)
        /\ \A j \in 1..(k - 1) : ~(sorted[j].application_name = app /\ Counted(sorted, j))

(* lines 418-424 *)
FocusInsight(changes) ==
    LET sorted == SortedByTime(changes)
        app_durations == [a \in TimedApps(sorted) |-> AppDuration(sorted, a, Len(sorted) - 1)]
        focus_apps == {a \in DOMAIN app_durations : app_durations[a] > FocusMs}
    IN  IF focus_apps = {} THEN <<>>
        ELSE LET longest_focus ==
                    CHOOSE a \in focus_apps : \A b \in focus_apps \ {a} :
                        \/ app_durations[a] > app_durations[b]
                        \/ /\ app_durations[a] = app_durations[b]
                           /\ FirstCounted(sorted, a) < FirstCounted(sorted, b)
             IN  << [line |-> "focus_session", app |-> longest_focus,
                     minutes_tenths |->
                         RoundedTenths(app_durations[longest_focus], MsPerMinute)] >>

RECURSIVE TotalIdle(_, _)
TotalIdle(idle_periods, k) ==
    IF k = 0 THEN 0 ELSE idle_periods[k].idle_duration + TotalIdle(idle_periods, k - 1)

(* lines 395-399 *)
IdleInsight(idle_periods) ==
    LET total_idle == TotalIdle(idle_periods, Len(idle_periods))
    IN  IF idle_periods # <<>> /\ total_idle > ExtendedIdleSeconds * Len(idle_periods)
        THEN << [line |-> "extended_idle",
                 avg_minutes_tenths |->
                     RoundedTenths(total_idle, 60 * Len(idle_periods))] >>
        ELSE <<>>

(* suggestions whose upper gate includes its threshold *)
SuggestionsFromTwenty(n) ==
    IF n >= 20 THEN <<[line |-> "suggest_time_blocking"]>>
    ELSE IF n < 3 THEN <<[line |-> "suggest_smallest_step"]>>
    ELSE <<>>

(* lines 427-430 *)
Suggestions(n) ==
    IF n > 20 THEN <<[line |-> "suggest_time_blocking"]>>
    ELSE IF n < 3 THEN <<[line |-> "suggest_smallest_step"]>>
    ELSE <<>>

Insights(changes, idle_periods) ==
    LET n == Len(changes)
        apps == AppsOf(changes)
    IN  (IF n > 10 THEN <<[line |-> "high_switching", changes |-> n,
                           apps |-> Cardinality(apps)]>> ELSE <<>>)
        \o (IF n > 0 /\ CountOf(MostUsed(apps, changes), changes) > 5
            THEN <<[line |-> "most_used", app |-> MostUsed(apps, changes)]>> ELSE <<>>)
        \o IdleInsight(idle_periods)
        \o (IF n > 0 THEN FocusInsight(changes) ELSE <<>>)
        \o Suggestions(n)

(* an analyzer that has nothing to say of a log without usable events *)
_analyze_usable_events(activity_logs) ==
    IF WindowChanges(activity_logs) = <<>> /\ IdlePeriods(activity_logs) = <<>> THEN <<>>
    ELSE LET changes == WindowChanges(activity_logs)
             days == {DayOf(changes[i].timestamp) : i \in 1..Len(changes)}
         IN  DaySummaries(days, changes)
                 \o Insights(changes, IdlePeriods(activity_logs))

_analyze_activity_context(activity_logs) ==
    IF activity_logs = <<>> THEN <<>>
    ELSE LET changes == WindowChanges(activity_logs)
             days == {DayOf(changes[i].timestamp) : i \in 1..Len(changes)}
         IN  DaySummaries(days, changes)
                 \o Insights(changes, IdlePeriods(activity_logs))

----------------------------------------------------------------------------
(* Prompt Composer.  A prompt is the template chosen by the mode dispatch
   together with what is substituted into the template's placeholders. *)

_create_system_prompt(mode, activity_summary, docs_content, detective_mode) ==
    [template |-> IF mode \in {"planner", "builder", "detective", "reviewer"}
                  THEN mode ELSE "general",
     mode_specific |-> IF mode # "detective" THEN "none"
                       ELSE IF detective_mode = "teaching" THEN "teaching"
                       ELSE "quick-fix",
     context_section |-> docs_content,
     activity_summary |-> activity_summary]

----------------------------------------------------------------------------
(* Conversation Orchestrator: the inputs of a turn and what the external
   collaborators (language model, retrieval index) may answer *)

Threads == {1, 2}
DecideTexts == {"d1"}
GenerateTexts == {"g1"}
RawTitles == {"Focus Help"}

WindowEvent ==
    [timestamp |-> Today * MsPerDay + 540 * MsPerMinute, type |-> "window_change",
     application_name |-> "Editor", window_title |-> "",
     idle_duration |-> 0, was_idle |-> FALSE]

(* the turn requests: message, mode, detective sub-mode, activity context *)
Requests ==
    { [message |-> "q1", mode |-> "general", detective_mode |-> "teaching",
       activity_context |-> <<>>],
      [message |-> "q2", mode |-> "detective", detective_mode |-> "quick-fix",
       activity_context |-> <<WindowEvent>>] }

HumanMessage(content) == [type |-> "human", content |-> content, tool_calls |-> <<>>]
AIMessage(content) == [type |-> "ai", content |-> content, tool_calls |-> <<>>]
ToolCallMessage(query) == [type |-> "ai", content |-> "", tool_calls |-> <<query>>]
ToolMessage(content) == [type |-> "tool", content |-> content, tool_calls |-> <<>>]
SystemMessage(content) == [type |-> "system", content |-> content, tool_calls |-> <<>>]

DecideResponses == {AIMessage(a) : a \in DecideTexts} \cup {ToolCallMessage("query")}

(* retrieve(query): the k passages, serialized *)
Serialized(query) == [k |-> RetrieveK, query |-> query]
ToolError == "Error: please fix your mistakes"

NoResult == [success |-> FALSE, error |-> "none"]
NoPrompt == [template |-> "none"]

IdleTurn ==
    [pc |-> "idle", message |-> "", session_id |-> "", mode |-> "",
     detective_mode |-> "", activity_context |-> <<>>,
     history |-> <<>>, msgs |-> <<>>, path |-> <<>>,
     decide_prompt |-> NoPrompt, generate_prompt |-> NoPrompt,
     decide_response |-> <<>>, final_answer |-> <<>>,
     result |-> NoResult,
     valid_at_start |-> FALSE, wrote |-> <<>>, renamed |-> <<>>, failed |-> {}]

InFlight(t) == turn[t].pc \notin {"idle", "done"}

Last(s) == s[Len(s)]

(* generate_response, lines 628-634: system and tool rows are not replayed *)
RECURSIVE HistoryToMessages(_)
HistoryToMessages(history) ==
    IF history = <<>> THEN <<>>
    ELSE LET m == history[Len(history)]
             front == HistoryToMessages(SubSeq(history, 1, Len(history) - 1))
         IN  IF m.type = "human" THEN Append(front, HumanMessage(m.content))
             ELSE IF m.type = "ai" THEN Append(front, AIMessage(m.content))
             ELSE front

(* _generate_chat_name after the model has answered raw *)
(* _generate_chat_name on the text of the model's response; a text is the
   sequence of its characters *)
Quote == "\""
Whitespace == {" ", "\n"}
Ellipsis == <<".", ".", ".">>
NewChat == <<"N", "e", "w", " ", "C", "h", "a", "t">>

(* str.strip() *)
Strip(text) ==
    LET kept == {i \in 1..Len(text) : text[i] \notin Whitespace}
    IN  IF kept = {} THEN <<>>
        ELSE SubSeq(text, CHOOSE i \in kept : \A j \in kept : i <= j,
                          CHOOSE i \in kept : \A j \in kept : j <= i)

(* lines 583-584: generated_name[1:-1] when it starts and ends with a quote *)
Unquote(text) ==
    IF Len(text) >= 1 /\ text[1] = Quote /\ text[Len(text)] = Quote
    THEN SubSeq(text, 2, Len(text) - 1)
    ELSE text

(* a cut that keeps MaxNameLength characters before the ellipsis *)
TruncateKeepingAll(text) ==
    IF Len(text) > MaxNameLength
    THEN SubSeq(text, 1, MaxNameLength) \o Ellipsis
    ELSE text

(* lines 587-588 *)
Truncate(text) ==
    IF Len(text) > MaxNameLength
    THEN SubSeq(text, 1, KeptNameLength) \o Ellipsis
    ELSE text

(* response: [raises, content]; raises stands for an exception of llm.invoke *)
_generate_chat_name(response) ==
    IF response.raises THEN NewChat
    ELSE LET generated_name == Truncate(Unquote(Strip(response.content)))
         IN  IF generated_name # <<>> THEN generated_name ELSE NewChat

(* the same on the titles of RawTitles, which names of the turn model carry
   as they are: no blank around them, no quote, not above MaxNameLength *)
CleanChatName(raw) == IF raw = "" THEN PlaceholderName ELSE raw

(* a Decide input that gets the new system message in front whatever the
   state holds *)
EnhancedMessagesPrepending(msgs, prompt) == <<SystemMessage(prompt)>> \o msgs

(* query_or_respond: replace or add the system message *)
EnhancedMessages(msgs, prompt) ==
    IF \E i \in 1..Len(msgs) : msgs[i].type = "system"
    THEN [i \in 1..Len(msgs) |->
            IF msgs[i].type = "system" THEN SystemMessage(prompt) ELSE msgs[i]]
    ELSE <<SystemMessage(prompt)>> \o msgs

DecidePrompt ==
    _create_system_prompt(
        cur.mode,
        IF cur.activity_context # <<>>
        THEN _analyze_activity_context(cur.activity_context) ELSE <<>>,
        <<>>,
        cur.detective_mode)

(* tools_condition: the node that follows query_or_respond *)
tools_condition(msgs) ==
    IF Last(msgs).type = "ai" /\ Last(msgs).tool_calls # <<>> THEN "tools" ELSE "END"

(* generate: the trailing tool messages, oldest first *)
RECURSIVE RecentToolMessages(_)
RecentToolMessages(msgs) ==
    IF msgs = <<>> \/ Last(msgs).type # "tool" THEN <<>>
    ELSE Append(RecentToolMessages(SubSeq(msgs, 1, Len(msgs) - 1)), Last(msgs))

DocsContent(msgs) ==
    LET tool_messages == RecentToolMessages(msgs)
    IN  [i \in 1..Len(tool_messages) |-> tool_messages[i].content]

GeneratePrompt(msgs) ==
    _create_system_prompt(cur.mode, <<>>, DocsContent(msgs), cur.detective_mode)

(* a replay that drops the tool-invocation requests and keeps their results *)
ConversationMessagesWithToolResults(msgs) ==
    SelectSeq(msgs, LAMBDA m : \/ m.type \in {"human", "system", "tool"}
                               \/ (m.type = "ai" /\ m.tool_calls = <<>>))

ConversationMessages(msgs) ==
    SelectSeq(msgs, LAMBDA m : \/ m.type \in {"human", "system"}
                               \/ (m.type = "ai" /\ m.tool_calls = <<>>))

(* query_or_respond, lines 475-490: what llm_with_tools.invoke is given *)
DecideInput(msgs) == EnhancedMessages(msgs, DecidePrompt)

(* generate, lines 519-528: what llm.invoke is given *)
GenerateInput(msgs) ==
    <<SystemMessage(GeneratePrompt(msgs))>> \o ConversationMessages(msgs)

(* a failure payload that does not carry the session id *)
FailureResultWithoutSession(session_id) ==
    [success |-> FALSE, error |-> "error", session_id |-> ""]

FailureResult(session_id) ==
    [success |-> FALSE, error |-> "error", session_id |-> session_id]

(* a success payload that carries the id of the user's message *)
SuccessResultWithUserMessageId(response_text, session_id, message_id) ==
    [success |-> TRUE, response |-> response_text, session_id |-> session_id,
     message_id |-> message_id - 1]

SuccessResult(response_text, session_id, message_id) ==
    [success |-> TRUE, response |-> response_text, session_id |-> session_id,
     message_id |-> message_id]

(* except Exception, lines 679-685 *)
Raised(t, call) ==
    [turn[t] EXCEPT !.pc = "done", !.result = FailureResult(turn[t].session_id),
                    !.failed = @ \cup {call}]

(* the text of the first message of the graph state in place of the last *)
FirstMessageText(msgs) == msgs[1].content

(* lines 656-662: the text of the last message of the final graph state *)
ResponseText(msgs) == Last(msgs).content

(* a graph whose generate node leads back to query_or_respond *)
NextNodeLooping(node, msgs) ==
    CASE node = "query_or_respond" -> tools_condition(msgs)
      [] node = "tools" -> "generate"
      [] node = "generate" -> "query_or_respond"

(* _setup_rag_graph, lines 538-545: the edges of the graph *)
NextNode(node, msgs) ==
    CASE node = "query_or_respond" -> tools_condition(msgs)
      [] node = "tools" -> "generate"
      [] node = "generate" -> "END"

(* after END generate_response goes on to persist the answer *)
PcAfter(node, msgs) ==
    IF NextNode(node, msgs) = "END" THEN "persist" ELSE NextNode(node, msgs)

SerialBroken(session_id) == [serial EXCEPT ![session_id].ok = FALSE]

----------------------------------------------------------------------------
(* generate_response, step by step.  A step is one store transaction, one
   model or retrieval call, or the assignment of the shared fields. *)

StartTurnOf(threads, requests) ==
    \E t \in threads, sid \in SessionIds, p \in requests :
        /\ ~InFlight(t)
        /\ started < MaxTurns
        /\ started' = started + 1
        /\ turn' = [turn EXCEPT ![t] =
              [IdleTurn EXCEPT !.pc = "load", !.message = p.message, !.session_id = sid,
                  !.mode = p.mode, !.detective_mode = p.detective_mode,
                  !.activity_context = p.activity_context,
                  !.valid_at_start = (get_session(sid) # <<>>)]]
        /\ serial' = IF \E u \in Threads \ {t} : InFlight(u) /\ turn[u].session_id = sid
                     THEN SerialBroken(sid) ELSE serial
        /\ UNCHANGED <<storeVars, lastCall, probeVars, now, cur>>

StartTurnOn(threads) == StartTurnOf(threads, Requests)

(* one request is served at a time *)
StartTurn == StartTurnOn({1})

(* requests are served by concurrent threads (Flask's threaded server) *)
StartConcurrentTurn == StartTurnOn(Threads)

(* lines 615-618 *)
LoadHistory(t) ==
    /\ turn[t].pc = "load"
    /\ LET history == get_message_history(turn[t].session_id, DefaultHistoryLimit)
       IN  turn' = [turn EXCEPT ![t].history = history,
                       ![t].pc = IF Len(history) = 0 THEN "name_check"
                                 ELSE "store_user"]
    /\ UNCHANGED <<storeVars, lastCall, probeVars, now, cur, started, serial>>

(* get_conversation_history, lines 687-693: an exception of
   get_message_history is caught and the history is taken to be empty *)
LoadHistoryFails(t) ==
    /\ turn[t].pc = "load"
    /\ turn' = [turn EXCEPT ![t].history = <<>>,
                    ![t].pc = "name_check",
                    ![t].failed = @ \cup {"history"}]
    /\ UNCHANGED <<storeVars, lastCall, probeVars, now, cur, started, serial>>

(* lines 621-623 *)
NameCheck(t) ==
    /\ turn[t].pc = "name_check"
    /\ LET session_info == get_session(turn[t].session_id)
       IN  turn' = [turn EXCEPT ![t].pc =
              IF session_info # <<>>
                 /\ session_info[1].name \in {NoName, PlaceholderName}
              THEN "naming" ELSE "store_user"]
    /\ UNCHANGED <<storeVars, lastCall, probeVars, now, cur, started, serial>>

(* a naming step whose failed model call ends the turn *)
NamingAbortingOnFailure(t) ==
    /\ turn[t].pc = "naming"
    /\ \/ \E raw \in RawTitles :
            /\ update_session_name(turn[t].session_id, CleanChatName(raw))
            /\ turn' = [turn EXCEPT ![t].pc = "store_user",
                            ![t].renamed = <<CleanChatName(raw)>>]
       \/ /\ turn' = [turn EXCEPT ![t] = Raised(t, "title")]
          /\ UNCHANGED storeVars
    /\ UNCHANGED <<lastCall, probeVars, now, cur, started, serial>>

(* lines 625-626 with _generate_chat_name, whose except returns "New Chat" *)
Naming(t) ==
    /\ turn[t].pc = "naming"
    /\ \/ \E raw \in RawTitles :
            /\ update_session_name(turn[t].session_id, CleanChatName(raw))
            /\ turn' = [turn EXCEPT ![t].pc = "store_user",
                            ![t].renamed = <<CleanChatName(raw)>>]
       \/ /\ update_session_name(turn[t].session_id, PlaceholderName)
          /\ turn' = [turn EXCEPT ![t].pc = "store_user",
                          ![t].renamed = <<PlaceholderName>>,
                          ![t].failed = @ \cup {"title"}]
    /\ UNCHANGED <<lastCall, probeVars, now, cur, started, serial>>

(* lines 629-641 *)
StoreUser(t) ==
    /\ turn[t].pc = "store_user"
    /\ add_message_simple(turn[t].session_id, "user", turn[t].message, turn[t].mode)
    /\ turn' = [turn EXCEPT ![t].pc = "set_context",
                    ![t].msgs = Append(HistoryToMessages(turn[t].history),
                                       HumanMessage(turn[t].message)),
                    ![t].history = <<>>,
                    ![t].wrote = Append(@, Last(messages'))]
    /\ UNCHANGED <<lastCall, probeVars, now, cur, started, serial>>

(* lines 644-646 *)
SetContext(t) ==
    /\ turn[t].pc = "set_context"
    /\ cur' = [mode |-> turn[t].mode, detective_mode |-> turn[t].detective_mode,
               activity_context |-> turn[t].activity_context]
    /\ turn' = [turn EXCEPT ![t].pc = "query_or_respond"]
    /\ UNCHANGED <<storeVars, lastCall, probeVars, now, started, serial>>

(* the Decide state *)
QueryOrRespond(t) ==
    /\ turn[t].pc = "query_or_respond"
    /\ \/ \E response \in DecideResponses :
            LET msgs == Append(turn[t].msgs, response)
            IN  turn' = [turn EXCEPT ![t].msgs = msgs,
                            ![t].path = Append(@, "query_or_respond"),
                            ![t].decide_response = <<response>>,
                            ![t].final_answer = <<response.content>>,
                            ![t].decide_prompt = DecidePrompt,
                            ![t].pc = PcAfter("query_or_respond", msgs)]
       \/ turn' = [turn EXCEPT ![t] =
              [Raised(t, "decide") EXCEPT !.path = Append(@, "query_or_respond"),
                                          !.decide_prompt = DecidePrompt]]
    /\ serial' = IF turn'[t].pc = "done" THEN SerialBroken(turn[t].session_id)
                 ELSE serial
    /\ UNCHANGED <<storeVars, lastCall, probeVars, now, cur, started>>

(* the Retrieve state: ToolNode runs retrieve(query).  ToolNode is built
   with the library's defaults, and whether a raised tool error leaves the
   graph or is folded into an error tool message depends on the release of
   the library: both are outcomes of a failing retrieval. *)
Tools(t) ==
    /\ turn[t].pc = "tools"
    /\ \/ LET msgs == Append(turn[t].msgs,
                             ToolMessage(Serialized(Last(turn[t].msgs).tool_calls[1])))
          IN  turn' = [turn EXCEPT ![t].msgs = msgs,
                          ![t].path = Append(@, "tools"),
                          ![t].pc = PcAfter("tools", msgs)]
       \/ turn' = [turn EXCEPT ![t] =
              [Raised(t, "retrieve") EXCEPT !.path = Append(@, "tools")]]
       \/ LET msgs == Append(turn[t].msgs, ToolMessage(ToolError))
          IN  turn' = [turn EXCEPT ![t].msgs = msgs,
                          ![t].path = Append(@, "tools"),
                          ![t].failed = @ \cup {"retrieve_handled"},
                          ![t].pc = PcAfter("tools", msgs)]
    /\ serial' = IF turn'[t].pc = "done" THEN SerialBroken(turn[t].session_id)
                 ELSE serial
    /\ UNCHANGED <<storeVars, lastCall, probeVars, now, cur, started>>

(* the Generate state *)
Generate(t) ==
    /\ turn[t].pc = "generate"
    /\ \/ \E a \in GenerateTexts :
            LET msgs == Append(turn[t].msgs, AIMessage(a))
            IN  turn' = [turn EXCEPT ![t].msgs = msgs,
                            ![t].path = Append(@, "generate"),
                            ![t].final_answer = <<a>>,
                            ![t].generate_prompt = GeneratePrompt(turn[t].msgs),
                            ![t].pc = PcAfter("generate", msgs)]
       \/ turn' = [turn EXCEPT ![t] =
              [Raised(t, "generate") EXCEPT !.path = Append(@, "generate"),
                    !.generate_prompt = GeneratePrompt(turn[t].msgs)]]
    /\ serial' = IF turn'[t].pc = "done" THEN SerialBroken(turn[t].session_id)
                 ELSE serial
    /\ UNCHANGED <<storeVars, lastCall, probeVars, now, cur, started>>

(* lines 656-671 *)
Persist(t) ==
    /\ turn[t].pc = "persist"
    /\ LET response_text == ResponseText(turn[t].msgs)
       IN  /\ add_message_simple(turn[t].session_id, "assistant", response_text,
                                 turn[t].mode)
           /\ turn' = [turn EXCEPT ![t].pc = "done",
                           ![t].result = SuccessResult(response_text,
                                             turn[t].session_id, nextMsgId),
                           ![t].wrote = Append(@, Last(messages'))]
           /\ serial' = [serial EXCEPT ![turn[t].session_id].pairs =
                            Append(@, <<turn[t].message, turn[t].final_answer[1]>>)]
    /\ UNCHANGED <<lastCall, probeVars, now, cur, started>>

----------------------------------------------------------------------------
(* The store driven directly by its callers *)

CreateSession ==
    /\ \E s \in SessionIds, name \in SessionNames :
          /\ create_session(s, name, NoMetadata)
          /\ serial' = [serial EXCEPT ![s] =
                [ok |-> /\ RowsOfSession(messages, s) = <<>>
                        /\ \A t \in Threads : ~(InFlight(t) /\ turn[t].session_id = s),
                 pairs |-> <<>>]]
    /\ UNCHANGED <<lastCall, probeVars, now, cur, turn, started>>

AddMessageSimple ==
    /\ nextMsgId <= MaxMsgs
    /\ \E s \in SessionIds, role \in InputRoles, c \in Contents, m \in StoreModes :
          /\ add_message_simple(s, role, c, m)
          /\ serial' = SerialBroken(s)
    /\ UNCHANGED <<lastCall, probeVars, now, cur, turn, started>>

ClearSession ==
    /\ \E s \in SessionIds :
          /\ clear_session(s)
          /\ serial' = SerialBroken(s)
    /\ UNCHANGED <<lastCall, probeVars, now, cur, turn, started>>

DeleteSession ==
    /\ \E s \in SessionIds :
          /\ delete_session(s)
          /\ serial' = SerialBroken(s)
    /\ UNCHANGED <<lastCall, probeVars, now, cur, turn, started>>

SaveChecklist ==
    /\ \E s \in SessionIds, mid \in 1..MaxMsgs, tasks \in TaskLists :
          /\ nextItemId + Len(tasks) - 1 <= MaxItems
          /\ save_checklist(s, mid, tasks)
    /\ UNCHANGED <<lastCall, probeVars, now, cur, turn, started, serial>>

Tick ==
    /\ now < MaxClock
    /\ now' = now + 1
    /\ UNCHANGED <<storeVars, lastCall, probeVars, cur, turn, started, serial>>

----------------------------------------------------------------------------
(* The store called through its methods, each call recorded with its
   arguments, whether it raised, and the tables as they were before it *)

NoTx ==
    [op |-> "none", session_id |-> "", arg |-> <<>>, step |-> 0, stamp |-> 0,
     sessions |-> <<>>, messages |-> <<>>, checklists |-> <<>>]
NoStats ==
    [pc |-> "idle", active_sessions |-> 0, total_sessions |-> 0,
     total_messages |-> 0, messages_by_type |-> <<>>]
NoInput == <<>>
NoOutput == <<>>

NoCall ==
    [n |-> 0, op |-> "none", session_id |-> "", arg |-> <<>>, raised |-> FALSE,
     returned |-> "none", repeated |-> FALSE,
     before |-> [sessions |-> <<>>, messages |-> <<>>, checklists |-> <<>>, now |-> 0]]

RecordedReturning(op, session_id, arg, raised, returned) ==
    [n |-> lastCall.n + 1, op |-> op, session_id |-> session_id, arg |-> arg,
     raised |-> raised, returned |-> returned,
     repeated |-> (lastCall.op = op /\ lastCall.session_id = session_id),
     before |-> [sessions |-> sessions, messages |-> messages,
                 checklists |-> checklists, now |-> now]]

Recorded(op, session_id, arg, raised) ==
    RecordedReturning(op, session_id, arg, raised, "none")

CallCreateSession ==
    /\ lastCall.n < MaxCalls
    /\ \E s \in SessionIds, p \in SessionProfiles :
          /\ create_session(s, p.name, p.metadata)
          /\ lastCall' = Recorded("create_session", s, p, FALSE)
          /\ serial' = SerialBroken(s)
    /\ UNCHANGED <<probeVars, now, cur, turn, started>>

CallAddMessageOf(roles) ==
    /\ lastCall.n < MaxCalls
    /\ \E s \in SessionIds, role \in roles, c \in Contents, m \in StoreModes :
          /\ add_message_simple(s, role, c, m)
          /\ lastCall' = Recorded("add_message_simple", s,
                                  [role |-> role, content |-> c, mode |-> m],
                                  add_message_simple_raises(role))
          /\ serial' = SerialBroken(s)
    /\ UNCHANGED <<probeVars, now, cur, turn, started>>

(* the caller of generate_response's first insert: role "user" *)
CallAddUserMessage == CallAddMessageOf({"user"})

CallAddMessage == CallAddMessageOf(CallRoles)

CallClearSession ==
    /\ lastCall.n < MaxCalls
    /\ \E s \in SessionIds :
          /\ clear_session(s)
          /\ lastCall' = Recorded("clear_session", s, <<>>, FALSE)
          /\ serial' = SerialBroken(s)
    /\ UNCHANGED <<probeVars, now, cur, turn, started>>

CallDeleteSession ==
    /\ lastCall.n < MaxCalls
    /\ \E s \in SessionIds :
          /\ delete_session(s)
          /\ lastCall' = Recorded("delete_session", s, <<>>, FALSE)
          /\ serial' = SerialBroken(s)
    /\ UNCHANGED <<probeVars, now, cur, turn, started>>

CallSaveChecklist ==
    /\ lastCall.n < MaxCalls
    /\ \E s \in SessionIds, mid \in MessageIds, tasks \in TaskLists :
          /\ save_checklist(s, mid, tasks)
          /\ lastCall' = Recorded("save_checklist", s,
                                  [message_id |-> mid, tasks |-> tasks], FALSE)
    /\ UNCHANGED <<probeVars, now, cur, turn, started, serial>>

----------------------------------------------------------------------------
Init ==
    /\ sessions = <<>>
    /\ messages = <<>>
    /\ checklists = <<>>
    /\ nextMsgId = 1
    /\ nextItemId = 1
    /\ now = 0
    /\ appended = [s \in SessionIds |-> <<>>]
    /\ cur = [mode |-> "general", detective_mode |-> "teaching",
              activity_context |-> <<>>]
    /\ turn = [t \in Threads |-> IdleTurn]
    /\ started = 0
    /\ serial = [s \in SessionIds |-> [ok |-> FALSE, pairs |-> <<>>]]
    /\ lastCall = NoCall
    /\ tx = NoTx
    /\ stats = NoStats
    /\ input = NoInput
    /\ output = NoOutput

(* the Session Store under arbitrary calls of its methods *)
Next ==
    \/ CreateSession
    \/ AddMessageSimple
    \/ ClearSession
    \/ DeleteSession
    \/ Tick

Spec == Init /\ [][Next]_vars

(* turns of the orchestrator, running concurrently on the request threads *)
TurnNext ==
    \/ CreateSession
    \/ StartTurn
    \/ \E t \in Threads : LoadHistory(t)
    \/ \E t \in Threads : NameCheck(t)
    \/ \E t \in Threads : Naming(t)
    \/ \E t \in Threads : StoreUser(t)
    \/ \E t \in Threads : SetContext(t)
    \/ \E t \in Threads : QueryOrRespond(t)
    \/ \E t \in Threads : Tools(t)
    \/ \E t \in Threads : Generate(t)
    \/ \E t \in Threads : Persist(t)

TurnSpec == Init /\ [][TurnNext]_vars

(* the same turns, for the path and progress of a turn: whether a step is
   enabled is evaluated in every state *)
TurnPathSpec == Init /\ [][TurnNext]_vars

(* turns whose request names a mode the prompt dispatch does not know; the
   route passes data.get("mode", "general") on as it is *)
ModeRequests ==
    { [message |-> "q1", mode |-> "planner", detective_mode |-> "teaching",
       activity_context |-> <<>>],
      [message |-> "q2", mode |-> "bogus", detective_mode |-> "teaching",
       activity_context |-> <<>>] }

StartModeTurn == StartTurnOf({1}, ModeRequests)

ModeNext ==
    \/ CreateSession
    \/ StartModeTurn
    \/ \E t \in Threads : LoadHistory(t)
    \/ \E t \in Threads : NameCheck(t)
    \/ \E t \in Threads : Naming(t)
    \/ \E t \in Threads : StoreUser(t)
    \/ \E t \in Threads : SetContext(t)
    \/ \E t \in Threads : QueryOrRespond(t)
    \/ \E t \in Threads : Tools(t)
    \/ \E t \in Threads : Generate(t)
    \/ \E t \in Threads : Persist(t)

ModeSpec == Init /\ [][ModeNext]_vars

(* turns served one at a time over a store whose reads may fail *)
HistoryFaultNext ==
    \/ TurnNext
    \/ \E t \in Threads : LoadHistoryFails(t)

HistoryFaultSpec == Init /\ [][HistoryFaultNext]_vars

(* the same, with sessions being cleared while turns are served *)
TurnClearNext ==
    \/ TurnNext
    \/ ClearSession

TurnClearSpec == Init /\ [][TurnClearNext]_vars

(* the Session Store with its checklist table *)
ChecklistNext ==
    \/ CreateSession
    \/ AddMessageSimple
    \/ DeleteSession
    \/ SaveChecklist

ChecklistSpec == Init /\ [][ChecklistNext]_vars

(* concurrent turns on two sessions that were created with a name *)
ConcurrentInit ==
    /\ sessions = [s \in SessionIds |->
                      [name |-> IF s = "s1" THEN "Work" ELSE NoName,
                       metadata |-> NoMetadata, is_active |-> TRUE, updated_at |-> 0]]
    /\ messages = <<>>
    /\ checklists = <<>>
    /\ nextMsgId = 1
    /\ nextItemId = 1
    /\ now = 0
    /\ appended = [s \in SessionIds |-> <<>>]
    /\ cur = [mode |-> "general", detective_mode |-> "teaching",
              activity_context |-> <<>>]
    /\ turn = [t \in Threads |-> IdleTurn]
    /\ started = 0
    /\ serial = [s \in SessionIds |-> [ok |-> TRUE, pairs |-> <<>>]]
    /\ lastCall = NoCall
    /\ tx = NoTx
    /\ stats = NoStats
    /\ input = NoInput
    /\ output = NoOutput

ConcurrentNext ==
    \/ StartConcurrentTurn
    \/ \E t \in Threads : LoadHistory(t)
    \/ \E t \in Threads : NameCheck(t)
    \/ \E t \in Threads : Naming(t)
    \/ \E t \in Threads : StoreUser(t)
    \/ \E t \in Threads : SetContext(t)
    \/ \E t \in Threads : QueryOrRespond(t)
    \/ \E t \in Threads : Tools(t)
    \/ \E t \in Threads : Generate(t)
    \/ \E t \in Threads : Persist(t)

ConcurrentSpec == ConcurrentInit /\ [][ConcurrentNext]_vars

(* _generate_chat_name applied to the responses of the naming call *)
Letters == <<"a", "b", "c", "d", "e">>
Body(n) == [i \in 1..n |-> Letters[((i - 1) % Len(Letters)) + 1]]
Blanks(n, c) == [i \in 1..n |-> c]

(* a response text: blanks, an opening quote or none, n letters, a closing
   quote or none, a line end or none *)
RawTitle(lead, open, n, close, trail) ==
    Blanks(lead, " ") \o (IF open THEN <<Quote>> ELSE <<>>) \o Body(n)
        \o (IF close THEN <<Quote>> ELSE <<>>) \o Blanks(trail, "\n")

TitleResponses ==
    {[raises |-> r, lead |-> lead, open |-> open, n |-> n, close |-> close,
      trail |-> trail, content |-> RawTitle(lead, open, n, close, trail)] :
        r \in BOOLEAN, lead \in 0..1, open \in BOOLEAN, n \in 0..MaxTitleBody,
        close \in BOOLEAN, trail \in 0..1}

TitleInit ==
    /\ Init!1 /\ Init!2 /\ Init!3 /\ Init!4 /\ Init!5 /\ Init!6 /\ Init!7
    /\ Init!8 /\ Init!9 /\ Init!10 /\ Init!11 /\ Init!12 /\ Init!13 /\ Init!14
    /\ input \in TitleResponses
    /\ output = NoOutput

GenerateChatName ==
    /\ output = NoOutput
    /\ output' = <<_generate_chat_name(input)>>
    /\ UNCHANGED <<storeVars, lastCall, tx, stats, input, now, cur, turn, started, serial>>

TitleNext == \/ GenerateChatName

TitleSpec == TitleInit /\ [][TitleNext]_vars

(* _analyze_activity_context applied to lists of events, while requests set
   the shared context fields of the service *)
Morning == Today * MsPerDay + 540 * MsPerMinute

WindowChangeAt(app, timestamp) ==
    [timestamp |-> timestamp, type |-> "window_change", application_name |-> app,
     window_title |-> IF app = "Editor" THEN "main.py" ELSE "",
     idle_duration |-> 0, was_idle |-> FALSE]

IdleAt(timestamp, idle_duration) ==
    [timestamp |-> timestamp, type |-> "idle", application_name |-> "",
     window_title |-> "", idle_duration |-> idle_duration, was_idle |-> TRUE]

ActivityEvents ==
    {WindowChangeAt("Editor", Morning + m * MsPerMinute) : m \in {0, 12}}
    \cup {WindowChangeAt("Browser", Morning + m * MsPerMinute) : m \in {6, 18, 80}}
    \cup {WindowChangeAt("Editor", Morning - MsPerDay),
          IdleAt(Morning + 3 * MsPerMinute, 600)}

ActivityLogs == UNION {[1..n -> ActivityEvents] : n \in 0..MaxEvents}

AnalyzerInit ==
    /\ Init!1 /\ Init!2 /\ Init!3 /\ Init!4 /\ Init!5 /\ Init!6 /\ Init!7
    /\ Init!8 /\ Init!9 /\ Init!10 /\ Init!11 /\ Init!12 /\ Init!13 /\ Init!14
    /\ input \in ActivityLogs
    /\ output = NoOutput

(* an invocation, recorded with the shared context field as it was then *)
AnalyzeActivityContext ==
    /\ Len(output) < MaxInvocations
    /\ output' = Append(output, [result |-> _analyze_activity_context(input),
                                 current |-> cur.activity_context])
    /\ UNCHANGED <<storeVars, lastCall, tx, stats, input, now, cur, turn, started, serial>>

(* generate_response of another request, lines 644-646 *)
OtherRequestSetsContext ==
    /\ cur.activity_context = <<>>
    /\ cur' = [mode |-> "detective", detective_mode |-> "quick-fix",
               activity_context |-> <<WindowEvent>>]
    /\ UNCHANGED <<storeVars, lastCall, probeVars, now, turn, started, serial>>

AnalyzerNext ==
    \/ AnalyzeActivityContext
    \/ OtherRequestSetsContext

AnalyzerSpec == AnalyzerInit /\ [][AnalyzerNext]_vars

(* logs of n window changes cycling through one, two or three applications,
   one or eleven minutes apart, with or without an idle period after them *)
AppCycle == <<"Editor", "Browser", "Mail">>

SwitchLog(n, period, gap) ==
    [i \in 1..n |->
        WindowChangeAt(AppCycle[((i - 1) % period) + 1],
                       Morning + (i - 1) * gap * MsPerMinute)]

SwitchLogs ==
    {SwitchLog(n, period, gap) \o idle :
        n \in 0..MaxSwitches, period \in 1..3, gap \in {1, 11},
        idle \in {<<>>, <<IdleAt(Morning, 600)>>}}

SwitchCountInit ==
    /\ Init!1 /\ Init!2 /\ Init!3 /\ Init!4 /\ Init!5 /\ Init!6 /\ Init!7
    /\ Init!8 /\ Init!9 /\ Init!10 /\ Init!11 /\ Init!12 /\ Init!13 /\ Init!14
    /\ input \in SwitchLogs
    /\ output = NoOutput

SwitchCountNext == \/ AnalyzeActivityContext

SwitchCountSpec == SwitchCountInit /\ [][SwitchCountNext]_vars

(* logs over several days: four applications today, one yesterday, one two
   days ago, an idle period, and a window change that carries no timestamp *)
DigestEvents ==
    {WindowChangeAt(app, Morning) : app \in {"Editor", "Browser", "Mail", "Chat"}}
    \cup {WindowChangeAt("Editor", Morning - MsPerDay),
          WindowChangeAt("Browser", Morning - 2 * MsPerDay),
          IdleAt(Morning, 600),
          WindowChangeAt("Editor", 0)}

DigestLogs == UNION {[1..n -> DigestEvents] : n \in 0..MaxEvents}

DigestInit ==
    /\ Init!1 /\ Init!2 /\ Init!3 /\ Init!4 /\ Init!5 /\ Init!6 /\ Init!7
    /\ Init!8 /\ Init!9 /\ Init!10 /\ Init!11 /\ Init!12 /\ Init!13 /\ Init!14
    /\ input \in DigestLogs
    /\ output = NoOutput

DigestNext == \/ AnalyzeActivityContext

DigestSpec == DigestInit /\ [][DigestNext]_vars

----------------------------------------------------------------------------
(* The nodes of the graph on a graph state of any shape: the messages a
   state can hold, with the shared fields as a request has set them *)

StateMessages ==
    {HumanMessage("q1"), AIMessage("a1"), ToolCallMessage("query"),
     ToolMessage(Serialized("query")),
     SystemMessage(_create_system_prompt("reviewer", <<>>, <<>>, "teaching"))}

GraphStates == UNION {[1..n -> StateMessages] : n \in 0..MaxStateMsgs}

NodeInit ==
    /\ Init!1 /\ Init!2 /\ Init!3 /\ Init!4 /\ Init!5 /\ Init!6 /\ Init!7
    /\ Init!9 /\ Init!10 /\ Init!11 /\ Init!12 /\ Init!13 /\ Init!14
    /\ \E p \in Requests :
          cur = [mode |-> p.mode, detective_mode |-> p.detective_mode,
                 activity_context |-> p.activity_context]
    /\ input \in GraphStates
    /\ output = NoOutput

QueryOrRespondNode ==
    /\ output = NoOutput
    /\ output' = <<[node |-> "query_or_respond", model_input |-> DecideInput(input)]>>
    /\ UNCHANGED <<storeVars, lastCall, tx, stats, input, now, cur, turn, started, serial>>

GenerateNode ==
    /\ output = NoOutput
    /\ output' = <<[node |-> "generate", model_input |-> GenerateInput(input)]>>
    /\ UNCHANGED <<storeVars, lastCall, tx, stats, input, now, cur, turn, started, serial>>

NodeNext ==
    \/ QueryOrRespondNode
    \/ GenerateNode

NodeSpec == NodeInit /\ [][NodeNext]_vars

(* The methods of the store statement by statement.  sqlite3 opens a
   transaction before the first INSERT, UPDATE or DELETE of a connection and
   the with block commits it on leaving (rolls it back on an exception);
   SQLite lets one connection write at a time.  tx is that connection: its
   method, how many statements it has run, and the tables as it sees them. *)
OpenTx(op, session_id, arg) ==
    [op |-> op, session_id |-> session_id, arg |-> arg, step |-> 1, stamp |-> now,
     sessions |-> sessions, messages |-> messages, checklists |-> checklists]

(* add_message_simple, lines 122-126: UPDATE sessions *)
TxAddUpdate ==
    /\ tx.op = "none"
    /\ nextMsgId <= MaxMsgs
    /\ \E s \in SessionIds, c \in Contents, m \in StoreModes :
          tx' = [OpenTx("add_message_simple", s,
                        [role |-> "user", content |-> c, mode |-> m])
                    EXCEPT !.sessions = SessionsAfterTouch(s)]
    /\ sessions' = ReadersView(sessions, tx'.sessions)
    /\ UNCHANGED <<messages, checklists, nextMsgId, nextItemId, appended,
                   lastCall, stats, input, output, now, cur, turn, started, serial>>

(* lines 128-132: INSERT INTO messages *)
TxAddInsert ==
    /\ tx.op = "add_message_simple" /\ tx.step = 1
    /\ tx' = [tx EXCEPT !.step = 2,
                  !.messages = MessagesAfterInsert(tx.session_id, tx.arg.role,
                                                   tx.arg.content, tx.arg.mode)]
    /\ messages' = ReadersView(messages, tx'.messages)
    /\ UNCHANGED <<sessions, checklists, nextMsgId, nextItemId, appended,
                   lastCall, stats, input, output, now, cur, turn, started, serial>>

(* line 133: leaving the with block commits *)
TxAddCommit ==
    /\ tx.op = "add_message_simple" /\ tx.step = 2
    /\ sessions' = tx.sessions
    /\ messages' = tx.messages
    /\ nextMsgId' = nextMsgId + 1
    /\ appended' = [appended EXCEPT ![tx.session_id] =
            Append(@, [id |-> nextMsgId, role |-> tx.arg.role,
                       type |-> NormalizeType(tx.arg.role),
                       content |-> tx.arg.content, mode |-> tx.arg.mode])]
    /\ tx' = NoTx
    /\ UNCHANGED <<checklists, nextItemId, lastCall, stats, input, output, now, cur,
                   turn, started, serial>>

(* clear_session, lines 180-183: UPDATE sessions *)
TxClearUpdate ==
    /\ tx.op = "none"
    /\ \E s \in SessionIds :
          tx' = [OpenTx("clear_session", s, <<>>) EXCEPT !.sessions = SessionsAfterClear(s)]
    /\ sessions' = ReadersView(sessions, tx'.sessions)
    /\ UNCHANGED <<messages, checklists, nextMsgId, nextItemId, appended,
                   lastCall, stats, input, output, now, cur, turn, started, serial>>

(* lines 186-189: DELETE FROM messages *)
TxClearDelete ==
    /\ tx.op = "clear_session" /\ tx.step = 1
    /\ tx' = [tx EXCEPT !.step = 2, !.messages = MessagesAfterClear(tx.session_id)]
    /\ messages' = ReadersView(messages, tx'.messages)
    /\ UNCHANGED <<sessions, checklists, nextMsgId, nextItemId, appended,
                   lastCall, stats, input, output, now, cur, turn, started, serial>>

TxClearCommit ==
    /\ tx.op = "clear_session" /\ tx.step = 2
    /\ sessions' = tx.sessions
    /\ messages' = tx.messages
    /\ appended' = [appended EXCEPT ![tx.session_id] = <<>>]
    /\ tx' = NoTx
    /\ UNCHANGED <<checklists, nextMsgId, nextItemId, lastCall, stats, input, output,
                   now, cur, turn, started, serial>>

(* create_session is one statement *)
TxCreateSession ==
    /\ tx.op = "none"
    /\ CreateSession

TransactionNext ==
    \/ TxCreateSession
    \/ TxAddUpdate
    \/ TxAddInsert
    \/ TxAddCommit
    \/ TxClearUpdate
    \/ TxClearDelete
    \/ TxClearCommit
    \/ Tick

TransactionSpec == Init /\ [][TransactionNext]_vars

(* get_stats, lines 204-227: four SELECTs on one connection.  sqlite3 opens no
   transaction for a SELECT, so each reads the tables as committed when it
   runs; the other callers commit between them. *)
StatsActiveSessions ==
    /\ stats.pc \in {"idle", "done"}
    /\ stats' = [NoStats EXCEPT !.pc = "total_sessions",
                     !.active_sessions =
                         Cardinality({s \in DOMAIN sessions : sessions[s].is_active})]
    /\ UNCHANGED <<storeVars, lastCall, tx, input, output, now, cur, turn, started, serial>>

StatsTotalSessions ==
    /\ stats.pc = "total_sessions"
    /\ stats' = [stats EXCEPT !.pc = "total_messages",
                     !.total_sessions = Cardinality(DOMAIN sessions)]
    /\ UNCHANGED <<storeVars, lastCall, tx, input, output, now, cur, turn, started, serial>>

StatsTotalMessages ==
    /\ stats.pc = "total_messages"
    /\ stats' = [stats EXCEPT !.pc = "messages_by_type",
                     !.total_messages = Len(messages)]
    /\ UNCHANGED <<storeVars, lastCall, tx, input, output, now, cur, turn, started, serial>>

StatsMessagesByType ==
    /\ stats.pc = "messages_by_type"
    /\ stats' = [stats EXCEPT !.pc = "done",
                     !.messages_by_type =
                         [ty \in {messages[i].message_type : i \in 1..Len(messages)} |->
                             Cardinality({i \in 1..Len(messages) :
                                             messages[i].message_type = ty})]]
    /\ UNCHANGED <<storeVars, lastCall, tx, input, output, now, cur, turn, started, serial>>

StatsNext ==
    \/ CreateSession
    \/ AddMessageSimple
    \/ ClearSession
    \/ DeleteSession
    \/ StatsActiveSessions
    \/ StatsTotalSessions
    \/ StatsTotalMessages
    \/ StatsMessagesByType

StatsSpec == Init /\ [][StatsNext]_vars

(* save_checklist statement by statement, and update_checklist_item *)
TxSaveDelete ==
    /\ tx.op = "none"
    /\ lastCall.n < MaxCalls
    /\ \E s \in SessionIds, mid \in MessageIds, tasks \in TaskLists :
          /\ nextItemId + Len(tasks) - 1 <= MaxItems
          /\ tx' = [OpenTx("save_checklist", s, [message_id |-> mid, tasks |-> tasks])
                       EXCEPT !.checklists = ChecklistsAfterSave(s, mid, <<>>)]
    /\ UNCHANGED <<storeVars, lastCall, stats, input, output, now, cur, turn, started, serial>>

(* lines 323-332: the INSERT of task number tx.step *)
TxSaveInsert ==
    /\ tx.op = "save_checklist" /\ tx.step <= Len(tx.arg.tasks)
    /\ tx' = [tx EXCEPT !.step = @ + 1,
                  !.checklists = Append(@,
                      NewChecklistRows(tx.session_id, tx.arg.message_id,
                                       tx.arg.tasks)[tx.step])]
    /\ UNCHANGED <<storeVars, lastCall, stats, input, output, now, cur, turn, started, serial>>

(* line 333: return True once the with block has committed *)
TxSaveCommit ==
    /\ tx.op = "save_checklist" /\ tx.step = Len(tx.arg.tasks) + 1
    /\ checklists' = tx.checklists
    /\ nextItemId' = nextItemId + Len(tx.arg.tasks)
    /\ lastCall' = RecordedReturning("save_checklist", tx.session_id,
                        [message_id |-> tx.arg.message_id, tasks |-> tx.arg.tasks,
                         statements |-> tx.step], FALSE, TRUE)
    /\ tx' = NoTx
    /\ UNCHANGED <<sessions, messages, nextMsgId, appended, stats, input, output,
                   now, cur, turn, started, serial>>

(* lines 334-336: the storage layer rejects the next INSERT; the exception
   leaves the with block and is caught *)
TxSaveFails ==
    /\ tx.op = "save_checklist" /\ tx.step <= Len(tx.arg.tasks)
    /\ checklists' = ChecklistsAfterRollback(checklists, tx.checklists)
    /\ lastCall' = RecordedReturning("save_checklist", tx.session_id,
                        [message_id |-> tx.arg.message_id, tasks |-> tx.arg.tasks,
                         statements |-> tx.step], FALSE, FALSE)
    /\ tx' = NoTx
    /\ UNCHANGED <<sessions, messages, nextMsgId, nextItemId, appended, stats, input,
                   output, now, cur, turn, started, serial>>

CallUpdateChecklistItem ==
    /\ tx.op = "none"
    /\ lastCall.n < MaxCalls
    /\ \E s \in SessionIds, mid \in MessageIds, item \in 1..MaxItems,
          is_completed \in BOOLEAN :
          /\ update_checklist_item(s, mid, item, is_completed)
          /\ lastCall' = RecordedReturning("update_checklist_item", s,
                              [message_id |-> mid, item_id |-> item,
                               is_completed |-> is_completed],
                              FALSE, ItemMatched(s, mid, item))
    /\ UNCHANGED <<probeVars, now, cur, turn, started, serial>>

ChecklistTxNext ==
    \/ TxSaveDelete
    \/ TxSaveInsert
    \/ TxSaveCommit
    \/ TxSaveFails

ChecklistTxSpec == Init /\ [][ChecklistTxNext]_vars

(* the store after save_checklist("s1", 1, [t1, t2]) and
   save_checklist("s2", 2, [t1]) at time 0; items are then completed and
   reopened one by one *)
ChecklistItemInit ==
    /\ Init!1 /\ Init!2 /\ Init!4 /\ Init!6 /\ Init!7
    /\ Init!8 /\ Init!9 /\ Init!10 /\ Init!11 /\ Init!12 /\ Init!13 /\ Init!14
    /\ Init!15 /\ Init!16
    /\ checklists =
          [i \in 1..3 |->
              [id |-> i,
               session_id |-> IF i < 3 THEN "s1" ELSE "s2",
               message_id |-> IF i < 3 THEN 1 ELSE 2,
               task_text |-> IF i = 2 THEN "t2" ELSE "t1",
               is_completed |-> FALSE,
               position |-> IF i = 2 THEN 1 ELSE 0,
               created_at |-> 0, updated_at |-> 0]]
    /\ nextItemId = 4

ChecklistItemNext ==
    \/ CallUpdateChecklistItem
    \/ Tick

ChecklistItemSpec == ChecklistItemInit /\ [][ChecklistItemNext]_vars

(* sessions created, written to, cleared and deleted through the store's methods *)
SessionCallNext ==
    \/ CallCreateSession
    \/ CallAddUserMessage
    \/ CallClearSession
    \/ CallDeleteSession
    \/ Tick

SessionCallSpec == Init /\ [][SessionCallNext]_vars

(* a store that holds session s1 and one message of it, a second after
   the message was written *)
MessageCallInit ==
    /\ sessions = [s \in {"s1"} |->
                      [name |-> "Work", metadata |-> NoMetadata, is_active |-> TRUE,
                       updated_at |-> 0]]
    /\ messages = <<[id |-> 1, session_id |-> "s1", message_type |-> "human",
                     content |-> "c1", metadata |-> NoMetadata, mode |-> "general",
                     created_at |-> 0]>>
    /\ checklists = <<>>
    /\ nextMsgId = 2
    /\ nextItemId = 1
    /\ now = 1
    /\ appended = [s \in SessionIds |->
                      IF s = "s1"
                      THEN <<[id |-> 1, role |-> "user", type |-> "human",
                              content |-> "c1", mode |-> "general"]>>
                      ELSE <<>>]
    /\ cur = [mode |-> "general", detective_mode |-> "teaching",
              activity_context |-> <<>>]
    /\ turn = [t \in Threads |-> IdleTurn]
    /\ started = 0
    /\ serial = [s \in SessionIds |-> [ok |-> FALSE, pairs |-> <<>>]]
    /\ lastCall = NoCall
    /\ tx = NoTx
    /\ stats = NoStats
    /\ input = NoInput
    /\ output = NoOutput

(* messages appended under every role a caller may pass *)
MessageCallNext ==
    \/ CallAddMessage

MessageCallSpec == MessageCallInit /\ [][MessageCallNext]_vars

(* checklists saved and saved again *)
ChecklistCallNext == \/ CallSaveChecklist

ChecklistCallSpec == Init /\ [][ChecklistCallNext]_vars

----------------------------------------------------------------------------
(* Properties *)

TurnDone(t) == turn[t].pc = "done"
Succeeded(t) == TurnDone(t) /\ turn[t].result.success

SameMessage(entry, appendedMessage) ==
    /\ entry.id = appendedMessage.id
    /\ entry.type = appendedMessage.type
    /\ entry.content = appendedMessage.content
    /\ entry.mode = appendedMessage.mode

(* C1: whatever the interleaving of appends across sessions, get_history(S,
   limit) with limit at least the number of messages of S returns exactly
   the messages appended to S, each once, in the order they were appended,
   and nothing appended to another session. *)
C1_HistoryIsWhatWasAppended ==
    \A s \in SessionIds :
        \A limit \in {Len(appended[s]), Len(appended[s]) + 1, DefaultHistoryLimit} :
            LET h == get_message_history(s, limit)
            IN  /\ Len(h) = Len(appended[s])
                /\ \A i \in 1..Len(h) : SameMessage(h[i], appended[s][i])

(* three appends, the middle one to the other session, the first two
   within one second and the third in a later one *)
C1_Witness ==
    /\ Len(messages) = 3
    /\ messages[1].session_id = "s1"
    /\ messages[2].session_id = "s2"
    /\ messages[3].session_id = "s1"
    /\ messages[1].created_at = messages[2].created_at
    /\ messages[2].created_at < messages[3].created_at
    /\ Len(get_message_history("s1", 2)) = 2

(* C2: after N turns run one after another on a fresh session, each
   successful, get_history returns 2N messages alternating human, ai, the
   k-th pair being the k-th turn's input and that turn's final answer. *)
C2_SerialTurnsAlternate ==
    \A s \in SessionIds :
        (serial[s].ok /\ \A t \in Threads : ~(InFlight(t) /\ turn[t].session_id = s))
        => LET h == get_message_history(s, DefaultHistoryLimit)
               p == serial[s].pairs
           IN  /\ Len(h) = 2 * Len(p)
               /\ \A k \in 1..Len(p) :
                    /\ h[2 * k - 1].type = "human"
                    /\ h[2 * k - 1].content = p[k][1]
                    /\ h[2 * k].type = "ai"
                    /\ h[2 * k].content = p[k][2]

C2_Witness ==
    \E s \in SessionIds :
        /\ serial[s].ok
        /\ Len(serial[s].pairs) = 2
        /\ serial[s].pairs[1] # serial[s].pairs[2]
        /\ \A t \in Threads : ~InFlight(t)

DecidedWithoutToolCall(t) ==
    turn[t].decide_response # <<>> /\ turn[t].decide_response[1].tool_calls = <<>>

InPath(t, node) == \E i \in 1..Len(turn[t].path) : turn[t].path[i] = node

(* C3: in a turn whose Decide response requests no tool invocation the
   Retrieval Index is never called, Generate is never entered, and the
   answer returned and persisted is the Decide response text verbatim. *)
C3_NoToolCallAnswersDirectly ==
    \A t \in Threads :
        DecidedWithoutToolCall(t) =>
            /\ ~InPath(t, "tools")
            /\ ~InPath(t, "generate")
            /\ turn[t].pc \in {"persist", "done"}
            /\ TurnDone(t) =>
                /\ turn[t].result.success
                /\ turn[t].result.response = turn[t].decide_response[1].content
                /\ Last(turn[t].wrote).message_type = "ai"
                /\ Last(turn[t].wrote).content = turn[t].decide_response[1].content

C3_Witness ==
    \E t \in Threads : DecidedWithoutToolCall(t) /\ Succeeded(t)

DecidePath == <<"query_or_respond">>
RetrievePath == <<"query_or_respond", "tools", "generate">>

IsPrefix(p, q) == Len(p) <= Len(q) /\ p = SubSeq(q, 1, Len(p))

TurnStep(t) ==
    \/ LoadHistory(t) \/ NameCheck(t) \/ Naming(t) \/ StoreUser(t) \/ SetContext(t)
    \/ QueryOrRespond(t) \/ Tools(t) \/ Generate(t) \/ Persist(t)

(* C4: every turn follows Decide -> end or Decide -> Retrieve -> Generate ->
   end: Retrieve is entered only right after a Decide response that requests
   a tool invocation, Generate only right after Retrieve, no state is
   entered twice, and a turn in flight can always take its next step until
   it is done. *)
C4_TurnFollowsOneOfTwoPaths ==
    \A t \in Threads :
        /\ IsPrefix(turn[t].path, RetrievePath)
        /\ Len(turn[t].path) >= 2 =>
              /\ turn[t].decide_response # <<>>
              /\ turn[t].decide_response[1].tool_calls # <<>>
        /\ turn[t].pc = "query_or_respond" => turn[t].path = <<>>
        /\ turn[t].pc = "tools" => turn[t].path = DecidePath
        /\ turn[t].pc = "generate" => turn[t].path = SubSeq(RetrievePath, 1, 2)
        /\ (turn[t].pc = "persist" \/ Succeeded(t)) =>
              \/ turn[t].path = DecidePath /\ DecidedWithoutToolCall(t)
              \/ turn[t].path = RetrievePath
        /\ InFlight(t) => ENABLED TurnStep(t)

C4_Witness ==
    \E t \in Threads : Succeeded(t) /\ turn[t].path = RetrievePath

(* C5: a successful turn with input t and mode m appends exactly two
   messages to its session, a human message (t, m) and then an ai message
   (final answer, m), and returns success, the answer, the session id and
   the id of that ai message. *)
C5_SuccessfulTurnAppendsTwo ==
    \A t \in Threads :
        Succeeded(t) =>
            /\ Len(turn[t].wrote) = 2
            /\ turn[t].wrote[1].message_type = "human"
            /\ turn[t].wrote[1].content = turn[t].message
            /\ turn[t].wrote[2].message_type = "ai"
            /\ turn[t].wrote[2].content = turn[t].final_answer[1]
            /\ \A i \in 1..2 :
                  /\ turn[t].wrote[i].mode = turn[t].mode
                  /\ turn[t].wrote[i].session_id = turn[t].session_id
            /\ turn[t].wrote[1].id < turn[t].wrote[2].id
            /\ turn[t].result =
                  [success |-> TRUE, response |-> turn[t].final_answer[1],
                   session_id |-> turn[t].session_id,
                   message_id |-> turn[t].wrote[2].id]

C5_Witness ==
    \E t \in Threads :
        /\ Succeeded(t)
        /\ turn[t].mode = "detective"
        /\ turn[t].path = RetrievePath
        /\ turn[t].result.message_id = 4

AbortedTurn(t) ==
    /\ ~turn[t].result.success
    /\ turn[t].result.session_id = turn[t].session_id
    /\ Len(turn[t].wrote) = 1
    /\ turn[t].wrote[1].message_type = "human"
    /\ turn[t].wrote[1].content = turn[t].message
    /\ Last(RowsOfSession(messages, turn[t].session_id)) = turn[t].wrote[1]
    /\ \A i \in 1..Len(messages) :
          messages[i].id >= turn[t].wrote[1].id => messages[i] = turn[t].wrote[1]

(* C6 as claimed: if a model call or the retrieval call fails during a
   turn, the turn returns a non-success result with the session id, persists
   no assistant message and leaves behind only the user's message and the
   session name. *)
C6_AnyFailedCallAbortsTurn ==
    \A t \in Threads :
        (TurnDone(t) /\ turn[t].failed # {}) => AbortedTurn(t)

(* C6 amended: if the Decide-state or Generate-state model call fails, or a
   retrieval failure is raised out of the graph, the turn returns a
   non-success result with the session id, persists no assistant message
   and leaves behind only the user's message and the session name. *)
C6_FailedGraphCallAbortsTurn ==
    \A t \in Threads :
        (TurnDone(t) /\ turn[t].failed \cap {"decide", "retrieve", "generate"} # {})
            => AbortedTurn(t)

C6_Witness ==
    \E t \in Threads :
        /\ TurnDone(t)
        /\ "generate" \in turn[t].failed
        /\ turn[t].renamed # <<>>
        /\ AbortedTurn(t)

OwnDecidePrompt(t) ==
    _create_system_prompt(
        turn[t].mode,
        IF turn[t].activity_context # <<>>
        THEN _analyze_activity_context(turn[t].activity_context) ELSE <<>>,
        <<>>,
        turn[t].detective_mode)

OwnGeneratePrompt(t) ==
    _create_system_prompt(turn[t].mode, <<>>, turn[t].generate_prompt.context_section,
                          turn[t].detective_mode)

(* C7: for concurrent turns on different sessions, the system prompts
   composed in a turn's Decide and Generate states use that turn's own mode,
   sub-mode and activity context, never those of another turn. *)
C7_PromptsUseOwnContext ==
    \A t \in Threads :
        (\A u \in Threads \ {t} : turn[u].session_id # turn[t].session_id) =>
            /\ turn[t].decide_prompt # NoPrompt =>
                  turn[t].decide_prompt = OwnDecidePrompt(t)
            /\ turn[t].generate_prompt # NoPrompt =>
                  turn[t].generate_prompt = OwnGeneratePrompt(t)

(* C8: a turn addressed to a session id that has no row, or whose session
   is inactive, is answered with a non-success result and has no side
   effect: no message is persisted and no session is changed. *)
C8_TurnOnMissingSessionRejected ==
    \A t \in Threads :
        (TurnDone(t) /\ ~turn[t].valid_at_start) =>
            /\ ~turn[t].result.success
            /\ turn[t].wrote = <<>>
            /\ turn[t].renamed = <<>>

(* C9: append_message with a session_id that references no session row
   fails and inserts no message. *)
C9_AppendToMissingSessionInsertsNothing ==
    [][ \A s \in SessionIds :
            s \notin DOMAIN sessions =>
                RowsOfSession(messages', s) = RowsOfSession(messages, s) ]_vars

(* C10: after delete_session(S) the session row of S is gone and no message
   and no checklist item of S remains in the store. *)
C10_DeleteSessionCascades ==
    [][ \A s \in SessionIds :
            (s \in DOMAIN sessions /\ s \notin DOMAIN sessions') =>
                /\ RowsOfSession(messages', s) = <<>>
                /\ RowsOfSession(checklists', s) = <<>> ]_vars

IdsOf(listing) == {listing[i].id : i \in 1..Len(listing)}

(* C11: after clear_session(S) the session has no message, is inactive and
   is absent from the active listing; a second clear_session(S) right after
   the first changes no message and no active flag. *)
C11_ClearTwiceIsClearOnce ==
    lastCall.op = "clear_session" =>
        LET s == lastCall.session_id
        IN  /\ RowsOfSession(messages, s) = <<>>
            /\ get_message_history(s, DefaultHistoryLimit) = <<>>
            /\ s \in DOMAIN lastCall.before.sessions =>
                  (s \in DOMAIN sessions /\ ~sessions[s].is_active)
            /\ \A listing \in list_sessions(TRUE, DefaultListLimit) :
                  s \notin IdsOf(listing)
            /\ lastCall.repeated =>
                  /\ messages = lastCall.before.messages
                  /\ DOMAIN sessions = DOMAIN lastCall.before.sessions
                  /\ \A x \in DOMAIN sessions :
                        sessions[x].is_active = lastCall.before.sessions[x].is_active

(* a session that held a message, cleared twice in a row *)
C11_Witness ==
    /\ lastCall.op = "clear_session"
    /\ lastCall.repeated
    /\ lastCall.session_id \in DOMAIN sessions
    /\ lastCall.before.messages = <<>>
    /\ nextMsgId = 2
    /\ lastCall.n = 4

(* C12: from its deactivation until it is deleted, a session is excluded from the active-only
   listing and a lookup by its identifier still finds it. *)
C12_InactiveSessionStillFound ==
    \A s \in DOMAIN sessions :
        ~sessions[s].is_active =>
            /\ \A listing \in list_sessions(TRUE, DefaultListLimit) :
                  s \notin IdsOf(listing)
            /\ get_session(s) # <<>>

(* C13: get_session(id) returns a session if and only if a row of that id
   exists and is active, and then it is that row; for a session just cleared
   or deleted and for an id never created it returns absent. *)
C13_GetSessionOnlyActive ==
    /\ \A s \in SessionIds :
          /\ get_session(s) # <<>> <=> (s \in DOMAIN sessions /\ sessions[s].is_active)
          /\ get_session(s) # <<>> => get_session(s) = <<sessions[s]>>
    /\ lastCall.op \in {"clear_session", "delete_session"} =>
          get_session(lastCall.session_id) = <<>>
    /\ lastCall.op = "create_session" =>
          /\ Len(get_session(lastCall.session_id)) = 1
          /\ get_session(lastCall.session_id)[1].name = lastCall.arg.name
    /\ lastCall.op = "none" => \A s \in SessionIds : get_session(s) = <<>>

(* one session found, one cleared and not found, one id without a row *)
C13_Witness ==
    /\ lastCall.op = "clear_session"
    /\ lastCall.session_id \in DOMAIN sessions
    /\ get_session(lastCall.session_id) = <<>>
    /\ \E x \in DOMAIN sessions : get_session(x) # <<>>

StoredRoles == {"human", "ai", "system", "tool"}
AcceptedRoles == {"human", "ai", "system", "tool", "user", "assistant"}

ExpectedStoredRole(role) ==
    CASE role \in {"user", "human"} -> "human"
      [] role \in {"assistant", "ai"} -> "ai"
      [] OTHER -> role

SameReadBack(e1, e2) ==
    /\ e1.type = e2.type
    /\ e1.content = e2.content
    /\ e1.metadata = e2.metadata
    /\ e1.mode = e2.mode

(* C14: roles are normalized on write: a message appended as "user" and one
   appended as "human" with the same content read back identically with role
   "human", likewise "assistant" and "ai" as "ai", and every stored role is
   one of human, ai, system, tool. *)
C14_RoleAliasesNormalized ==
    /\ \A i \in 1..Len(messages) : messages[i].message_type \in StoredRoles
    /\ \A s \in SessionIds :
          LET h == get_message_history(s, DefaultHistoryLimit)
              a == appended[s]
          IN  /\ Len(h) = Len(a)
              /\ \A i \in 1..Len(h) : h[i].type = ExpectedStoredRole(a[i].role)
              /\ \A i, j \in 1..Len(h) :
                    (/\ ExpectedStoredRole(a[i].role) = ExpectedStoredRole(a[j].role)
                     /\ a[i].content = a[j].content
                     /\ a[i].mode = a[j].mode)
                    => SameReadBack(h[i], h[j])

(* one session written to as user, human, assistant and ai *)
C14_Witness ==
    \E s \in SessionIds :
        LET h == get_message_history(s, DefaultHistoryLimit)
            a == appended[s]
        IN  \E i, j, k, l \in 1..Len(a) :
                /\ Len(h) = Len(a)
                /\ a[i].role = "user" /\ a[j].role = "human" /\ i # j
                /\ h[i].type = "human" /\ SameReadBack(h[i], h[j])
                /\ a[k].role = "assistant" /\ a[l].role = "ai"
                /\ h[k].type = "ai" /\ SameReadBack(h[k], h[l])

(* C15: add_message_simple with a role outside human, ai, system, tool,
   user, assistant raises and leaves the store as it was: no message is
   inserted and no session's updated_at is bumped; with a role of that set
   it does not raise and inserts one message. *)
C15_UnknownRoleRejected ==
    lastCall.op = "add_message_simple" =>
        IF lastCall.arg.role \in AcceptedRoles
        THEN /\ ~lastCall.raised
             /\ Len(messages) = Len(lastCall.before.messages) + 1
        ELSE /\ lastCall.raised
             /\ messages = lastCall.before.messages
             /\ sessions = lastCall.before.sessions
             /\ checklists = lastCall.before.checklists

(* an unknown role passed for an existing session a second after its last update *)
C15_Witness ==
    /\ lastCall.op = "add_message_simple"
    /\ lastCall.arg.role = "bogus"
    /\ lastCall.raised
    /\ lastCall.session_id \in DOMAIN sessions
    /\ sessions[lastCall.session_id].updated_at < lastCall.before.now
    /\ Len(messages) > 1

(* C17: after save_checklist(S, M, tasks) the items of (S, M) are exactly the
   saved tasks, in their order, none of the items saved before for the pair
   survives, and the items of every other pair are unchanged. *)
C17_SaveChecklistReplaces ==
    lastCall.op = "save_checklist" =>
        LET s == lastCall.session_id
            m == lastCall.arg.message_id
            tasks == lastCall.arg.tasks
            items == get_checklist(s, m)
            old == ItemsOfPair(lastCall.before.checklists, s, m)
        IN  /\ Len(items) = Len(tasks)
            /\ \A i \in 1..Len(items) :
                  /\ items[i].taskText = tasks[i]
                  /\ items[i].position = i - 1
                  /\ ~items[i].isCompleted
                  /\ \A j \in 1..Len(old) : items[i].id # old[j].id
            /\ \A s2 \in SessionIds, m2 \in MessageIds :
                  <<s2, m2>> # <<s, m>> =>
                      ItemsOfPair(checklists, s2, m2)
                          = ItemsOfPair(lastCall.before.checklists, s2, m2)

(* two items saved for a pair, then one, next to the items of another pair *)
C17_Witness ==
    /\ lastCall.op = "save_checklist"
    /\ Len(ItemsOfPair(lastCall.before.checklists, lastCall.session_id,
                       lastCall.arg.message_id)) = 2
    /\ Len(get_checklist(lastCall.session_id, lastCall.arg.message_id)) = 1
    /\ Len(checklists) > 1

(* C18: there is at most one session row per id: after create_session with an
   id, existing or not, the one row of that id carries the name and the
   metadata of this latest call, and the rows of the other ids are the rows
   from before the call. *)
C18_CreateReplacesRow ==
    lastCall.op = "create_session" =>
        LET s == lastCall.session_id
            before == lastCall.before.sessions
        IN  /\ Cardinality({x \in DOMAIN sessions : x = s}) = 1
            /\ sessions[s].name = lastCall.arg.name
            /\ sessions[s].metadata = lastCall.arg.metadata
            /\ DOMAIN sessions = DOMAIN before \cup {s}
            /\ \A x \in DOMAIN before : x # s => sessions[x] = before[x]

(* create_session on an id whose row had another name and other metadata *)
C18_Witness ==
    /\ lastCall.op = "create_session"
    /\ lastCall.session_id \in DOMAIN lastCall.before.sessions
    /\ lastCall.before.sessions[lastCall.session_id].name # lastCall.arg.name
    /\ lastCall.before.sessions[lastCall.session_id].metadata # lastCall.arg.metadata
    /\ Cardinality(DOMAIN sessions) = 2

(* C19: when a session holds more than limit messages, get_history(S, limit)
   returns exactly limit messages, and they are the limit oldest ones, in
   ascending order: the first limit messages appended to S. *)
C19_LimitKeepsOldest ==
    \A s \in SessionIds :
        \A limit \in 0..(Len(appended[s]) - 1) :
            LET history == get_message_history(s, limit)
            IN  /\ Len(history) = limit
                /\ \A i \in 1..limit : SameMessage(history[i], appended[s][i])
                /\ \A i \in 1..(limit - 1) :
                      history[i].timestamp <= history[i + 1].timestamp

(* three messages of a session written at two different times, read with
   limit 2 *)
C19_Witness ==
    \E s \in SessionIds :
        /\ Len(appended[s]) = 3
        /\ Len(get_message_history(s, 2)) = 2
        /\ get_message_history(s, 3)[1].timestamp < get_message_history(s, 3)[3].timestamp

ListLimits == {0, 1, 2, DefaultListLimit}

(* C20: every result of list_sessions(active_only, limit) has at most limit
   sessions, is sorted by updated_at descending and holds no inactive session
   when active_only is set; and the session that most recently received a
   message, when the listing selects it, comes before every listed session
   that was updated earlier. *)
C20_ListingSortedAndBounded ==
    \A active_only \in BOOLEAN, limit \in ListLimits :
        \A listing \in list_sessions(active_only, limit) :
            /\ Len(listing) <= limit
            /\ \A i, j \in 1..Len(listing) :
                  i < j => listing[i].updated_at >= listing[j].updated_at
            /\ active_only => \A i \in 1..Len(listing) : listing[i].is_active
            /\ \A i \in 1..Len(listing) : listing[i].id \in DOMAIN sessions
            /\ (/\ lastCall.op = "add_message_simple"
                /\ ~lastCall.raised
                /\ lastCall.session_id \in ListedIds(active_only))
               => /\ sessions[lastCall.session_id].updated_at = lastCall.before.now
                  /\ \A j \in 1..Len(listing) :
                        listing[j].updated_at < lastCall.before.now
                            => \E i \in 1..(j - 1) : listing[i].id = lastCall.session_id

(* two active sessions; the one that was not updated after the other receives
   a message at a later time and is now listed first in every result *)
C20_Witness ==
    /\ lastCall.op = "add_message_simple"
    /\ ~lastCall.raised
    /\ Cardinality(ListedIds(TRUE)) = 2
    /\ \E x \in ListedIds(TRUE) :
          /\ x # lastCall.session_id
          /\ lastCall.before.sessions[lastCall.session_id].updated_at
                <= lastCall.before.sessions[x].updated_at
          /\ sessions[x].updated_at < sessions[lastCall.session_id].updated_at
          /\ \A listing \in list_sessions(TRUE, 2) :
                listing[1].id = lastCall.session_id /\ listing[2].id = x

(* the modes the prompt dispatch names, and its default *)
PromptModes == {"general", "planner", "builder", "detective", "reviewer"}

(* C16: a turn whose mode is none of general, planner, builder, detective,
   reviewer is rejected before any persistence or model call: it writes no
   message, renames no session, reaches no model call and does not succeed. *)
C16_UnknownModeRejected ==
    \A t \in Threads :
        (turn[t].pc # "idle" /\ turn[t].mode \notin PromptModes) =>
            /\ turn[t].wrote = <<>>
            /\ turn[t].renamed = <<>>
            /\ turn[t].path = <<>>
            /\ turn[t].pc \notin {"naming", "query_or_respond", "tools", "generate"}
            /\ ~turn[t].result.success
            /\ \A i \in 1..Len(messages) : messages[i].mode \in PromptModes

(* C22 as claimed: the title never exceeds 50 characters; a raw title longer
   than 50 characters becomes its first 47 characters followed by "...", a raw
   title of 1 to 50 characters is returned unchanged, and an empty raw title
   yields "New Chat". *)
C22_TitleFromRawTitle ==
    (output # NoOutput /\ ~input.raises) =>
        LET raw == input.content
            title == output[1]
        IN  /\ Len(title) <= 50
            /\ Len(raw) > 50 => title = SubSeq(raw, 1, 47) \o Ellipsis
            /\ (1 <= Len(raw) /\ Len(raw) <= 50) => title = raw
            /\ raw = <<>> => title = NewChat

(* what is left of a response text once the blanks around it and then one
   pair of enclosing quotes are taken off, told from how the text was built *)
CleanedTitle(response) ==
    IF response.open /\ response.close THEN Body(response.n)
    ELSE IF response.n = 0 /\ (response.open \/ response.close) THEN <<>>
    ELSE (IF response.open THEN <<Quote>> ELSE <<>>) \o Body(response.n)
            \o (IF response.close THEN <<Quote>> ELSE <<>>)

(* C22 amended: the title never exceeds 50 characters; with the raw title
   taken after the blanks around it and then one pair of enclosing double
   quotes are removed, a raw title longer than 50 characters becomes its first
   47 characters followed by "...", one of 1 to 50 characters is returned
   unchanged, and an empty one yields "New Chat". *)
C22_TitleFromCleanedTitle ==
    (output # NoOutput /\ ~input.raises) =>
        LET raw == CleanedTitle(input)
            title == output[1]
        IN  /\ Len(title) <= 50
            /\ Len(raw) > 50 => title = SubSeq(raw, 1, 47) \o Ellipsis
            /\ (1 <= Len(raw) /\ Len(raw) <= 50) => title = raw
            /\ raw = <<>> => title = NewChat

(* a quoted response of 51 letters followed by a line end, cut to 47 letters
   and the ellipsis *)
C22_Witness ==
    /\ output # NoOutput
    /\ ~input.raises
    /\ input.open /\ input.close /\ input.trail = 1
    /\ input.n = 51
    /\ Len(output[1]) = 50
    /\ SubSeq(output[1], 48, 50) = Ellipsis

(* C29: with the current date fixed, two invocations of the Activity Analyzer
   on the same list of events return identical output, whatever the shared
   fields of the service held at each invocation. *)
C29_AnalyzerDeterministic ==
    \A i, j \in 1..Len(output) : output[i].result = output[j].result

(* two invocations on three or more events, the shared context field set by
   another request between them, both reporting a focus session *)
C29_Witness ==
    /\ Len(output) = 2
    /\ Len(input) >= 3
    /\ output[1].current # output[2].current
    /\ \E k \in 1..Len(output[2].result) : output[2].result[k].line = "focus_session"

FocusLines(result) == SelectSeq(result, LAMBDA l : l.line = "focus_session")

(* the dwells of the claim: from one window change to the next in time, under
   one hour and over ten minutes *)
LongDwells(activity_logs) ==
    LET sorted == SortedByTime(WindowChanges(activity_logs))
    IN  {k \in 1..(Len(sorted) - 1) :
            /\ sorted[k + 1].timestamp - sorted[k].timestamp < 3600000
            /\ sorted[k + 1].timestamp - sorted[k].timestamp > 600000}

(* C30: the focus-session insight is emitted exactly when some single
   contiguous dwell in one application (from one window change to the next,
   counted only if under 1 hour) exceeds 10 minutes, and it names the longest
   such dwell and its application. *)
C30_FocusIsOneContiguousDwell ==
    \A i \in 1..Len(output) :
        LET sorted == SortedByTime(WindowChanges(input))
            dwells == LongDwells(input)
            lines == FocusLines(output[i].result)
        IN  /\ (lines # <<>>) <=> (dwells # {})
            /\ lines # <<>> =>
                  \E k \in dwells :
                      /\ \A j \in dwells :
                            sorted[j + 1].timestamp - sorted[j].timestamp
                                <= sorted[k + 1].timestamp - sorted[k].timestamp
                      /\ lines[1].app = sorted[k].application_name
                      /\ lines[1].minutes_tenths
                            = (sorted[k + 1].timestamp - sorted[k].timestamp) \div 6000

(* C21: within a turn, the title-generation call and the rename are entered
   only if the session has no persisted message and its current name is empty
   or the placeholder "New Chat": a turn on a session that already has
   messages, or that has a non-placeholder name, never goes on to rename it. *)
C21_OnlyFreshSessionsRenamed ==
    [][\A t \in Threads :
          (turn[t].pc = "name_check" /\ turn'[t].pc = "naming") =>
              /\ RowsOfSession(messages, turn[t].session_id) = <<>>
              /\ turn[t].session_id \in DOMAIN sessions
              /\ sessions[turn[t].session_id].name \in {NoName, PlaceholderName}]_vars

(* C23: if the title-generation call fails on a session's first turn, the
   turn is not aborted: the session is renamed to the default "New Chat", and
   when nothing else fails the answer is generated and the user and the
   assistant message are both persisted. *)
C23_TitleFailureDoesNotAbort ==
    \A t \in Threads :
        "title" \in turn[t].failed =>
            /\ turn[t].renamed = <<PlaceholderName>>
            /\ (TurnDone(t) /\ turn[t].failed = {"title"}) =>
                  /\ turn[t].result.success
                  /\ Len(turn[t].wrote) = 2
                  /\ turn[t].wrote[1].message_type = "human"
                  /\ turn[t].wrote[1].content = turn[t].message
                  /\ turn[t].wrote[2].message_type = "ai"
                  /\ turn[t].wrote[2].content = turn[t].result.response
                  /\ \A k \in 1..2 : \E i \in 1..Len(messages) : messages[i] = turn[t].wrote[k]

(* a finished turn whose only failure was the title call, its answer generated
   after a retrieval *)
C23_Witness ==
    \E t \in Threads :
        /\ TurnDone(t)
        /\ turn[t].failed = {"title"}
        /\ turn[t].result.success
        /\ turn[t].path = RetrievePath
        /\ turn[t].session_id \in DOMAIN sessions
        /\ sessions[turn[t].session_id].name = PlaceholderName

(* C24: a failure to load the session's history at the start of a turn is not
   silently swallowed: the turn ends with a non-success response and does not
   proceed as if the session had no prior messages. *)
C24_HistoryFailureEndsTurn ==
    \A t \in Threads :
        "history" \in turn[t].failed =>
            /\ TurnDone(t)
            /\ ~turn[t].result.success
            /\ turn[t].wrote = <<>>
            /\ turn[t].renamed = <<>>

(* C25: each Session Store operation takes effect atomically for the other
   callers: while clear_session or add_message_simple has statements not yet
   committed, what the others read is unchanged; when a clear commits, the
   session turns inactive and its messages go in the same step; when an
   append commits, the message appears together with the bump of its
   session's updated timestamp. *)
C25_OperationsAtomic ==
    [][/\ tx'.op # "none" => (sessions' = sessions /\ messages' = messages)
       /\ (tx.op = "clear_session" /\ tx'.op = "none") =>
             /\ RowsOfSession(messages', tx.session_id) = <<>>
             /\ tx.session_id \in DOMAIN sessions =>
                   /\ ~sessions'[tx.session_id].is_active
                   /\ get_session(tx.session_id)' = <<>>
       /\ (tx.op = "add_message_simple" /\ tx'.op = "none") =>
             /\ Len(messages') = Len(messages) + 1
             /\ Last(messages').session_id = tx.session_id
             /\ tx.session_id \in DOMAIN sessions =>
                   sessions'[tx.session_id].updated_at = tx.stamp
      ]_vars

(* a clear that has run its UPDATE but has not committed, on an active session
   with messages: the others still find the session active, messages present *)
C25_Witness ==
    /\ tx.op = "clear_session"
    /\ tx.step = 1
    /\ get_session(tx.session_id) # <<>>
    /\ ~tx.sessions[tx.session_id].is_active
    /\ RowsOfSession(messages, tx.session_id) # <<>>

RECURSIVE SumOfCounts(_, _)
SumOfCounts(counts, types) ==
    IF types = {} THEN 0
    ELSE LET ty == CHOOSE x \in types : TRUE
         IN  counts[ty] + SumOfCounts(counts, types \ {ty})

(* C26: get_stats returns a consistent snapshot: total_messages equals the sum
   of the per-role counts and active_sessions is at most total_sessions, also
   when other calls append messages, clear or delete sessions during it. *)
C26_StatsConsistent ==
    stats.pc = "done" =>
        /\ stats.total_messages
              = SumOfCounts(stats.messages_by_type, DOMAIN stats.messages_by_type)
        /\ stats.active_sessions <= stats.total_sessions

(* C27: if the storage layer rejects a write inside save_checklist,
   save_checklist returns false instead of raising and the checklist stored
   before for the pair, like every other item, is left as it was. *)
C27_FailedSaveLeavesChecklist ==
    (lastCall.op = "save_checklist" /\ lastCall.returned = FALSE) =>
        /\ ~lastCall.raised
        /\ checklists = lastCall.before.checklists
        /\ get_checklist(lastCall.session_id, lastCall.arg.message_id)
              = [i \in 1..Len(ItemsOfPair(lastCall.before.checklists,
                                          lastCall.session_id, lastCall.arg.message_id)) |->
                    ChecklistEntry(ItemsOfPair(lastCall.before.checklists,
                                               lastCall.session_id,
                                               lastCall.arg.message_id)[i])]

(* a save over a stored checklist of the pair, rejected at an INSERT after its
   DELETE had run: the stored items are still read back *)
C27_Witness ==
    /\ lastCall.op = "save_checklist"
    /\ lastCall.returned = FALSE
    /\ lastCall.arg.statements >= 1
    /\ ItemsOfPair(lastCall.before.checklists, lastCall.session_id,
                   lastCall.arg.message_id) # <<>>
    /\ Len(get_checklist(lastCall.session_id, lastCall.arg.message_id)) >= 1

MatchingItems(rows, session_id, message_id, item_id) ==
    {i \in 1..Len(rows) :
        /\ rows[i].id = item_id
        /\ rows[i].session_id = session_id
        /\ rows[i].message_id = message_id}

(* C28: update_item_completion returns false and changes nothing when no item
   matches (item id, session, message); when one matches it returns true and
   changes only that item's completion flag and updated timestamp, leaving
   its task text and position and every other item unchanged. *)
C28_UpdateTouchesOneItem ==
    lastCall.op = "update_checklist_item" =>
        LET before == lastCall.before.checklists
            matching == MatchingItems(before, lastCall.session_id,
                                      lastCall.arg.message_id, lastCall.arg.item_id)
        IN  /\ lastCall.returned = (matching # {})
            /\ matching = {} => checklists = before
            /\ Cardinality(matching) <= 1
            /\ Len(checklists) = Len(before)
            /\ \A i \in 1..Len(before) :
                  IF i \in matching
                  THEN /\ checklists[i].is_completed = lastCall.arg.is_completed
                       /\ checklists[i].updated_at = lastCall.before.now
                       /\ checklists[i].task_text = before[i].task_text
                       /\ checklists[i].position = before[i].position
                       /\ checklists[i].id = before[i].id
                       /\ checklists[i].session_id = before[i].session_id
                       /\ checklists[i].message_id = before[i].message_id
                       /\ checklists[i].created_at = before[i].created_at
                  ELSE checklists[i] = before[i]

(* the second of two stored items is completed at a later time *)
C28_Witness ==
    /\ lastCall.op = "update_checklist_item"
    /\ lastCall.returned = TRUE
    /\ Len(checklists) >= 2
    /\ lastCall.arg.item_id = checklists[2].id
    /\ checklists[2].is_completed
    /\ ~lastCall.before.checklists[2].is_completed
    /\ checklists[2].updated_at > checklists[2].created_at
    /\ checklists[1] = lastCall.before.checklists[1]

SwitchCount(activity_logs) ==
    Cardinality({i \in 1..Len(activity_logs) : activity_logs[i].type = "window_change"})

HasLine(result, kind) == \E k \in 1..Len(result) : result[k].line = kind

(* C31 as stated: with n the number of window-change events, the high task
   switching insight appears iff n > 10, the time-blocking suggestion iff
   n > 20 and the smallest-step suggestion iff n < 3; the two suggestions
   never appear together and neither appears for 3 <= n <= 20. *)
C31_SwitchGatesOfCount ==
    \A i \in 1..Len(output) :
        LET n == SwitchCount(input)
            result == output[i].result
        IN  /\ HasLine(result, "high_switching") <=> n > 10
            /\ HasLine(result, "suggest_time_blocking") <=> n > 20
            /\ HasLine(result, "suggest_smallest_step") <=> n < 3
            /\ ~(HasLine(result, "suggest_time_blocking")
                    /\ HasLine(result, "suggest_smallest_step"))
            /\ (3 <= n /\ n <= 20) =>
                    /\ ~HasLine(result, "suggest_time_blocking")
                    /\ ~HasLine(result, "suggest_smallest_step")

(* C31 amended: the same gates, the smallest-step suggestion appearing iff
   n < 3 and the event list is not empty (an empty list yields no summary at
   all). *)
C31_SwitchGatesOfNonEmptyLog ==
    \A i \in 1..Len(output) :
        LET n == SwitchCount(input)
            result == output[i].result
        IN  /\ HasLine(result, "high_switching") <=> n > 10
            /\ HasLine(result, "suggest_time_blocking") <=> n > 20
            /\ HasLine(result, "suggest_smallest_step") <=> (n < 3 /\ input # <<>>)
            /\ ~(HasLine(result, "suggest_time_blocking")
                    /\ HasLine(result, "suggest_smallest_step"))
            /\ (3 <= n /\ n <= 20) =>
                    /\ ~HasLine(result, "suggest_time_blocking")
                    /\ ~HasLine(result, "suggest_smallest_step")

(* a log of 21 window changes analysed: both the high-switching insight and
   the time-blocking suggestion are in the summary *)
C31_Witness ==
    /\ Len(output) >= 1
    /\ SwitchCount(input) = 21
    /\ HasLine(output[1].result, "high_switching")
    /\ HasLine(output[1].result, "suggest_time_blocking")
    /\ ~HasLine(output[1].result, "suggest_smallest_step")

UsedLines(result) == SelectSeq(result, LAMBDA l : l.line = "used")

(* the window-change events of a day, as positions in the log *)
ChangesOn(activity_logs, day) ==
    {i \in 1..Len(activity_logs) :
        /\ activity_logs[i].type = "window_change"
        /\ activity_logs[i].timestamp # 0
        /\ activity_logs[i].timestamp \div MsPerDay = day}

UsesOn(activity_logs, day, app) ==
    Cardinality({i \in ChangesOn(activity_logs, day) :
                    activity_logs[i].application_name = app})

DaysWithChanges(activity_logs) ==
    {day \in 0..Today : ChangesOn(activity_logs, day) # {}}

(* one line per day with window changes, most recent day first, each listing
   at most 3 applications, those used most that day, highest count first *)
DayLinesInOrder(activity_logs, used) ==
    /\ Len(used) = Cardinality(DaysWithChanges(activity_logs))
    /\ {used[k].day : k \in 1..Len(used)} = DaysWithChanges(activity_logs)
    /\ \A k \in 1..(Len(used) - 1) : used[k].day > used[k + 1].day
    /\ \A k \in 1..Len(used) :
          LET apps == used[k].apps
              onDay == {activity_logs[i].application_name :
                            i \in ChangesOn(activity_logs, used[k].day)}
              listed == {apps[j].app : j \in 1..Len(apps)}
          IN  /\ Len(apps) <= 3
              /\ Len(apps) = (IF Cardinality(onDay) < 3 THEN Cardinality(onDay) ELSE 3)
              /\ Cardinality(listed) = Len(apps)
              /\ listed \subseteq onDay
              /\ \A j \in 1..Len(apps) :
                    apps[j].count = UsesOn(activity_logs, used[k].day, apps[j].app)
              /\ \A j \in 1..(Len(apps) - 1) : apps[j].count >= apps[j + 1].count
              /\ \A a \in onDay \ listed : \A j \in 1..Len(apps) :
                    UsesOn(activity_logs, used[k].day, a) <= apps[j].count

(* C36 as stated: at most one summary line per calendar day that has
   window-change events, most recent day first, the two most recent days of
   the summary labelled Today and Yesterday and older days by date, each line
   listing at most the 3 applications used most that day, highest count
   first. *)
C36_TwoMostRecentDaysLabelled ==
    \A i \in 1..Len(output) :
        LET used == UsedLines(output[i].result)
        IN  /\ DayLinesInOrder(input, used)
            /\ \A k \in 1..Len(used) :
                  used[k].label = (IF k = 1 THEN "Today"
                                   ELSE IF k = 2 THEN "Yesterday" ELSE "date")

(* C36 amended: the same lines, a day labelled Today when it is the current
   date, Yesterday when it is the day before the current date, and by its
   date otherwise. *)
C36_DaysLabelledFromCurrentDate ==
    \A i \in 1..Len(output) :
        LET used == UsedLines(output[i].result)
        IN  /\ DayLinesInOrder(input, used)
            /\ \A k \in 1..Len(used) :
                  used[k].label = (IF used[k].day = Today THEN "Today"
                                   ELSE IF used[k].day = Today - 1 THEN "Yesterday"
                                   ELSE "date")

(* a log with window changes today (two applications), yesterday and two days
   ago: three day lines, labelled Today, Yesterday and by date *)
C36_Witness ==
    /\ Len(output) >= 1
    /\ Len(UsedLines(output[1].result)) = 3
    /\ UsedLines(output[1].result)[1].label = "Today"
    /\ Len(UsedLines(output[1].result)[1].apps) = 2
    /\ UsedLines(output[1].result)[2].label = "Yesterday"
    /\ UsedLines(output[1].result)[3].label = "date"

(* C40: the Activity Analyzer returns the empty string if and only if the
   event list is empty; every non-empty list, also one whose events all lack
   a timestamp or are all idle events, yields a non-empty summary. *)
C40_EmptySummaryIffNoEvents ==
    \A i \in 1..Len(output) : (output[i].result = <<>>) <=> (input = <<>>)

(* a log of events that all lack a timestamp, analysed to a summary that
   holds the smallest-step suggestion *)
C40_Witness ==
    /\ Len(output) >= 1
    /\ input # <<>>
    /\ \A k \in 1..Len(input) : input[k].timestamp = 0
    /\ output[1].result = <<[line |-> "suggest_smallest_step"]>>

IsToolRequest(m) == m.type = "ai" /\ m.tool_calls # <<>>

Replayable(m) == m.type \in {"human", "system"} \/ (m.type = "ai" /\ m.tool_calls = <<>>)

(* the positions of a graph state whose message is to be replayed *)
ReplayedPositions(msgs) == {i \in 1..Len(msgs) : Replayable(msgs[i])}

(* C32: the message list replayed to the model in the Generate state holds
   no tool-result message and no assistant message that requests a tool
   invocation; every user message, system message and assistant message
   without tool calls of the state is retained, in its original order. *)
C32_GenerateReplaysConversationOnly ==
    (output # NoOutput /\ output[1].node = "generate") =>
        LET replayed == SubSeq(output[1].model_input, 2, Len(output[1].model_input))
            kept == ReplayedPositions(input)
        IN  /\ \A k \in 1..Len(replayed) :
                  replayed[k].type # "tool" /\ ~IsToolRequest(replayed[k])
            /\ Len(replayed) = Cardinality(kept)
            /\ \A i \in kept :
                  replayed[Cardinality({j \in kept : j <= i})] = input[i]

(* a state with a question, a tool request, its result and an earlier answer:
   the request and the result are left out, the other two replayed in order *)
C32_Witness ==
    /\ output # NoOutput
    /\ output[1].node = "generate"
    /\ Len(input) = 4
    /\ \E i \in 1..4 : input[i].type = "tool"
    /\ \E i \in 1..4 : IsToolRequest(input[i])
    /\ Len(output[1].model_input) = 3
    /\ output[1].model_input[2].type = "ai"
    /\ output[1].model_input[3].type = "human"

(* C34: the model input of the Decide state carries the freshly composed
   system prompt (mode and activity summary, no retrieved content) and no
   other system message content: each system message of the state is
   replaced by it, and when the state has none it is placed first, ahead of
   the unchanged other messages. *)
C34_DecideCarriesFreshSystemPrompt ==
    (output # NoOutput /\ output[1].node = "query_or_respond") =>
        LET sent == output[1].model_input
            prompt == _create_system_prompt(cur.mode,
                          _analyze_activity_context(cur.activity_context), <<>>,
                          cur.detective_mode)
        IN  /\ prompt.context_section = <<>>
            /\ \E k \in 1..Len(sent) : sent[k].type = "system"
            /\ \A k \in 1..Len(sent) :
                  sent[k].type = "system" => sent[k].content = prompt
            /\ IF \E i \in 1..Len(input) : input[i].type = "system"
               THEN /\ Len(sent) = Len(input)
                    /\ \A i \in 1..Len(input) :
                          IF input[i].type = "system" THEN sent[i].type = "system"
                          ELSE sent[i] = input[i]
               ELSE /\ sent[1].type = "system"
                    /\ SubSeq(sent, 2, Len(sent)) = input

(* a state whose second message is an old system message, under a request
   that carries an activity context: the old prompt is replaced in place *)
C34_Witness ==
    /\ output # NoOutput
    /\ output[1].node = "query_or_respond"
    /\ Len(input) >= 2
    /\ input[1].type = "human"
    /\ input[2].type = "system"
    /\ cur.activity_context # <<>>
    /\ output[1].model_input[2].content.activity_summary # <<>>
    /\ output[1].model_input[2] # input[2]
    /\ Len(output[1].model_input) = Len(input)

(* the content of the tool results a turn's Retrieve step has produced *)
RetrievedContent(t) ==
    LET results == SelectSeq(turn[t].msgs, LAMBDA m : m.type = "tool")
    IN  [i \in 1..Len(results) |-> results[i].content]

(* C33: the system prompt built in the Generate state is composed from the
   turn's mode (and sub-mode) and the concatenated content of the tool
   results of this turn's Retrieve step, and holds no activity summary even
   when the turn was given a non-empty activity context. *)
C33_GeneratePromptFromModeAndRetrieved ==
    \A t \in Threads :
        (turn[t].generate_prompt # NoPrompt /\ turn[t].pc # "done") =>
            /\ turn[t].generate_prompt.activity_summary = <<>>
            /\ turn[t].generate_prompt =
                  _create_system_prompt(turn[t].mode, <<>>,
                      SubSeq(RetrievedContent(t), 1, Len(RetrievedContent(t))),
                      turn[t].detective_mode)

(* the rows of a turn's session that were stored before the turn's own user
   message, oldest first, cut at the history limit *)
RowsBeforeTurn(t) ==
    SqlLimit(SelectSeq(OrderByCreatedAtAsc(RowsOfSession(messages, turn[t].session_id)),
                       LAMBDA r : r.id < turn[t].wrote[1].id),
             DefaultHistoryLimit)

ReplayOf(rows) ==
    LET shown == SelectSeq(rows, LAMBDA r : r.message_type \in {"human", "ai"})
    IN  [i \in 1..Len(shown) |->
            IF shown[i].message_type = "human" THEN HumanMessage(shown[i].content)
            ELSE AIMessage(shown[i].content)]

(* C37: the model input of the Decide state is the system prompt, then the
   session's persisted user and assistant messages in stored order (those
   among the oldest rows up to the history limit; system and tool rows are
   not replayed), then the current user message, once and last. *)
C37_DecideInputReplaysHistory ==
    \A t \in Threads :
        turn[t].pc = "query_or_respond" =>
            DecideInput(turn[t].msgs)
                = <<SystemMessage(DecidePrompt)>>
                    \o ReplayOf(RowsBeforeTurn(t))
                    \o <<HumanMessage(turn[t].message)>>

(* C38: every stored checklist item refers to a message that currently
   exists in the same session: save_checklist for a message id that does not
   exist stores nothing, and after clear_session(S) no item of S remains. *)
C38_ChecklistItemsReferToMessages ==
    \A i \in 1..Len(checklists) :
        \E j \in 1..Len(messages) :
            /\ messages[j].id = checklists[i].message_id
            /\ messages[j].session_id = checklists[i].session_id

(* C39: create_session called with the id of a deactivated session makes the
   session active again, found by get_session and listed among the active
   sessions, with the new name and metadata, and it neither removes nor
   alters the messages still stored under that id. *)
C39_CreateReactivatesSession ==
    (/\ lastCall.op = "create_session"
     /\ lastCall.session_id \in DOMAIN lastCall.before.sessions
     /\ ~lastCall.before.sessions[lastCall.session_id].is_active) =>
        LET s == lastCall.session_id
        IN  /\ Len(get_session(s)) = 1
            /\ get_session(s)[1].is_active
            /\ get_session(s)[1].name = lastCall.arg.name
            /\ get_session(s)[1].metadata = lastCall.arg.metadata
            /\ \A listing \in list_sessions(TRUE, DefaultListLimit) :
                  s \in IdsOf(listing)
            /\ messages = lastCall.before.messages

(* a session cleared, given a message while inactive, then created again
   under a name: the message is still stored *)
C39_Witness ==
    /\ lastCall.op = "create_session"
    /\ lastCall.session_id \in DOMAIN lastCall.before.sessions
    /\ ~lastCall.before.sessions[lastCall.session_id].is_active
    /\ lastCall.arg.name # NoName
    /\ RowsOfSession(messages, lastCall.session_id) # <<>>
    /\ get_session(lastCall.session_id) # <<>>

(* C35: messages are immutable once written: no store or orchestrator
   operation changes the role, content, mode tag or metadata of a stored
   message, and a message leaves the store only when its session is cleared
   or deleted: in every step a stored message either stays as it is or goes
   together with all messages of its session, the session then being
   inactive or without a row. *)
C35_MessagesImmutable ==
    [][\A i \in 1..Len(messages) :
          \/ \E j \in 1..Len(messages') : messages'[j] = messages[i]
          \/ /\ RowsOfSession(messages', messages[i].session_id) = <<>>
             /\ \/ messages[i].session_id \notin DOMAIN sessions'
                \/ ~sessions'[messages[i].session_id].is_active
      ]_vars

(* a session just cleared of a message while the message of the other
   session is still stored as it was written *)
C35_Witness ==
    /\ lastCall.op = "clear_session"
    /\ lastCall.session_id \in DOMAIN sessions
    /\ RowsOfSession(lastCall.before.messages, lastCall.session_id) # <<>>
    /\ RowsOfSession(messages, lastCall.session_id) = <<>>
    /\ messages # <<>>
    /\ \A i \in 1..Len(messages) :
          \E j \in 1..Len(lastCall.before.messages) :
              lastCall.before.messages[j] = messages[i]

====
